---- MODULE Spec2Model ----
(***************************************************************************)
(* Verification model of the synthetic mobility data generator:            *)
(*   - utils/general.py            binary_search (timeline lookup)         *)
(*   - disasters/generic/earthquake.py   Earthquake.generate_disaster      *)
(*   - population_networks/generic/...   node and edge build               *)
(*   - simulations/specific/PanamaDrill.py   the simulation loop and        *)
(*                                           extract_destination_node       *)
(*   - population_networks/generic/...   build() and the cache              *)
(*   - utils/general.py            load_ping_data                           *)
(*   - utils/facebook.py           extract_quad_keys, tileXY_to_quadkey     *)
(*   - disasters/generic/uniform_disaster_dist.py   UniformDisasterFun      *)
(*   - utils/geometric.py          extract_samples_from_geo_frame           *)
(*   - simulations/specific/PanamaDrill.py   the adjacency loop             *)
(*   - population_networks/generic/...   initial_sample                     *)
(*   - data_processors/generic/FB_population_density.py   load_data,        *)
(*                                  __init__, the baseline and crisis tables *)
(* Each part has its own specification (SpecSearch, SpecQuake, SpecBuild,   *)
(* SpecSim, SpecClock, SpecCache, SpecPing, SpecQuad, SpecUniform,          *)
(* SpecSample, SpecChoice, SpecAdjacency, SpecInitialSample, SpecLoadData,  *)
(* SpecConstruct, SpecDataset) over its own variables; the other variables  *)
(* stay at their initial value.                                             *)
(***************************************************************************)
EXTENDS Integers, Sequences, FiniteSets, TLC

VARIABLES
    \* ---- binary_search / timeline lookup
    array,              \* the list handed to binary_search
    search_val,         \* the value searched
    closest_index,      \* the value binary_search returned
    fun,                \* what the timeline lookup returned for the tick (None or Some(field))
    tick_msg,           \* what the tick printed after the lookup
    search_pc,          \* "start" | "searched" | "looked_up"
    \* ---- Earthquake
    eq_start_date, eq_end_date, eq_continuity, eq_method, eq_step_unit, eq_A0,
    disaster_timeline,  \* Earthquake.__disaster_timeline (None until set)
    disaster_functions, \* Earthquake.__disaster_functions (None until set)
    eq_pc,              \* "new" | "generated" | "returned" | "AssertionError"
    \* ---- PopulationNetworkFromHDXNoGeometry
    min_lon, max_lon,   \* the bounding box (all points lie on the equator, lat = 0)
    world_pop_density,  \* the rows of the density raster file: [X, Z]
    populated_places,   \* the rows of the populated places file: [name, lon]
    nodes,              \* PopulationNetwork.__nodes (None until built)
    edges,              \* PopulationNetwork.__edges (None until built)
    build_pc,           \* "new" | "built" | "ValueError"
    \* ---- PanamaDrill (Simulation)
    sim_start_date, sim_end_date,  \* Simulation.start_date, end_date (clock units)
    frequency,          \* Simulation.frequency, in half clock units
    group_keys,         \* whether groupby.apply prefixes the group key to the index
    population,         \* nodes[POPULATION], per node
    sim_edges,          \* the rows (node_id1, node_id2) of population_network.edges
    sim_timeline,       \* disaster.disaster_timeline
    sim_functions,      \* per timeline entry, the field's intensity at every node
    adjacent_nodes,     \* self.adjacent_nodes
    disaster_on,        \* self.disaster_on
    forces,             \* nodes[ATTRACTIVE_FORCE, REPELLING_FORCE, FINAL_FORCE]
    total_elements,     \* the number of devices
    device_positions,   \* rows [id, node_id]
    device_trajectories,\* per device id: [start_node, end_node]
    current_date,       \* the loop variable
    node_trajectories,  \* the ids of the devices the pass found at rest (line 162)
    edge_trajectories,  \* the ids of the devices the pass found in transit (line 163)
    results_folder,     \* the files written: date string -> rows [id, date]
    export_log,         \* the file name stems in the order export_iteration wrote them
    ticks_started,      \* passes of the loop begun
    sim_pc,             \* "new" | "loop" | "done" | the exception that ended simulate
    \* ---- PopulationNetworkFromHDX / ...NoGeometry: build() and the cache
    hdx_kind,           \* the class of the network: "hdx" | "no_geometry"
    hdx_memory,         \* per artefact, the private attribute: None or Some(content)
    hdx_cache,          \* per artefact, its cache file: None (no file) or Some(content)
    hdx_stdout,         \* what the latest call printed
    hdx_builds,         \* number of times build() ran
    hdx_calls,          \* number of calls made to the network
    \* ---- utils/general.py : load_ping_data
    ping_dir,           \* os.listdir(data_dir): the files, in the order listed
    ping_df,            \* the frame returned (None before the call and when it raises)
    ping_errors,        \* the rows appended to the error log
    ping_pc,            \* "new" | "returned" | "Exception"
    \* ---- utils/facebook.py : extract_quad_keys, tileXY_to_quadkey
    quad_level,         \* con.LEVEL_DETAIL
    quad_poi,           \* the point asked for: [latitude, longitude]
    quad_tile,          \* tileX, tileY of the last call (None before the first)
    quad_out,           \* what each call returned: [latitude, longitude, quadkey]
    \* ---- disasters/generic/uniform_disaster_dist.py : UniformDisasterFun
    uni_mean,           \* longitude of the epicentre, in grid steps
    uni_radius_km,      \* radius_km
    uni_amplitude,      \* amplitude
    uni_pois,           \* the query points (their longitudes, in grid steps)
    uni_out,            \* what intensity returned (None before and when it raises)
    uni_pc,             \* "new" | "returned" | "TypeError"
    \* ---- utils/geometric.py : extract_samples_from_geo_frame
    geo_amount,         \* sample_amount: the quota of each node
    geo_sample_step,    \* sample_step, in tenths
    geo_counts_named,   \* pandas >= 2.0: value_counts() names its column "count"
    geo_sample_size,    \* sample_size
    geo_sample_points,  \* sample_points: the number of rows of each id and point
    geo_progress,       \* the ids of progress: the nodes still sampled for
    geo_rounds,         \* passes of the while loop made
    geo_pc,             \* "sampling" | "returned" | "raised"
    \* ---- simulations/specific/PanamaDrill.py : extract_destination_node
    choice_node,        \* node_id: the node the devices of df are at rest in
    choice_adjacent,    \* self.adjacent_nodes[node_id]
    choice_forces,      \* the final force of every node of the network
    choice_on,          \* self.disaster_on
    choice_devices,     \* df.shape[0]
    choice_kept,        \* forces.index after line 234 (None before the call)
    choice_out,         \* the frame returned: (start, end) per device (None before)
    choice_pc,          \* "new" | "returned" | "ValueError"
    \* ---- simulations/specific/PanamaDrill.py : the adjacency loop of simulate
    adj_index,          \* the index of population_network.edges: "MultiIndex" | "RangeIndex"
    adj_edges,          \* the rows of population_network.edges: (node_id1, node_id2)
    adj_built,          \* adjacent_nodes so far: None for a node not yet visited
    adj_pc,             \* "loop" | "done" | "IndexingError"
    \* ---- population_network_from_hdx_no_geometry.py : initial_sample
    is_population,      \* nodes[POPULATION]
    is_ids,             \* len(ids)
    is_positions,       \* the frame returned: id, node_id, lon, lat (None before)
    is_pc,              \* "new" | "returned" | "ValueError"
    \* ---- data_processors/generic/FB_population_density.py : load_data
    ld_raw,             \* df_raw as load_ping_data returns it: id, hour of the ping, location
    ld_kept,            \* df_raw after drop_duplicates: the location kept per (id, interval)
    ld_count,           \* df: the count of every (location, interval) group
    ld_pc,              \* "new" | "loaded"
    \* ---- data_processors/generic/FB_population_density.py : __init__
    fb_lists,           \* the list objects: fb_lists[0] is the default of baseline_cols,
                        \* fb_lists[i] the list the caller made for the i-th construction
    fb_instances,       \* the instances constructed, in order: geometry column, the
                        \* list object __baseline_cols refers to, how it was passed
    fb_errors,          \* constructions ended by AssertionError
    \* ---- data_processors/generic/FB_population_density.py : the tables of one instance
    pd_rows_before,     \* the ping data holds rows before crisis_datetime
    pd_rows_after,      \* the ping data holds rows at or after crisis_datetime
    pd_geo_readable,    \* load_data gets past the reading of the geometry file
    pd_baseline,        \* self.__baseline: "empty" | "installed" | "loaded"
    pd_crisis,          \* self.__crisis: "empty" | "installed" | "loaded"
    pd_baseline_loaded, \* self.__baseline_loaded
    pd_crisis_loaded,   \* self.__crisis_loaded
    pd_data,            \* self.__data: None, or the two tables build_dataset merged
    pd_calls            \* calls made so far

searchVars == <<array, search_val, closest_index, fun, tick_msg, search_pc>>
quakeVars  == <<eq_start_date, eq_end_date, eq_continuity, eq_method, eq_step_unit,
                eq_A0, disaster_timeline, disaster_functions, eq_pc>>
buildVars  == <<min_lon, max_lon, world_pop_density, populated_places, nodes, edges, build_pc>>
simVars    == <<sim_start_date, sim_end_date, frequency, group_keys, population, sim_edges,
                sim_timeline, sim_functions, adjacent_nodes, disaster_on, forces, total_elements,
                device_positions, device_trajectories, current_date, node_trajectories,
                edge_trajectories, results_folder, export_log, ticks_started, sim_pc>>
cacheVars  == <<hdx_kind, hdx_memory, hdx_cache, hdx_stdout, hdx_builds, hdx_calls>>
pingVars   == <<ping_dir, ping_df, ping_errors, ping_pc>>
quadVars   == <<quad_level, quad_poi, quad_tile, quad_out>>
uniVars    == <<uni_mean, uni_radius_km, uni_amplitude, uni_pois, uni_out, uni_pc>>
geoVars    == <<geo_amount, geo_sample_step, geo_counts_named, geo_sample_size,
                geo_sample_points, geo_progress, geo_rounds, geo_pc>>
choiceVars == <<choice_node, choice_adjacent, choice_forces, choice_on, choice_devices,
                choice_kept, choice_out, choice_pc>>
adjVars == <<adj_index, adj_edges, adj_built, adj_pc>>
isVars == <<is_population, is_ids, is_positions, is_pc>>
ldVars == <<ld_raw, ld_kept, ld_count, ld_pc>>
fbVars == <<fb_lists, fb_instances, fb_errors>>
pdVars == <<pd_rows_before, pd_rows_after, pd_geo_readable, pd_baseline, pd_crisis,
            pd_baseline_loaded, pd_crisis_loaded, pd_data, pd_calls>>
vars == <<searchVars, quakeVars, buildVars, simVars, cacheVars, pingVars, quadVars,
         uniVars, geoVars, choiceVars, adjVars, isVars, ldVars, fbVars, pdVars>>

\* Python's None and a value that is not None
None    == <<>>
Some(x) == <<x>>
Val(o)  == o[1]

----------------------------------------------------------------------------
(* Generic helpers                                                          *)

Abs(x) == IF x < 0 THEN -x ELSE x

\* np.round / round(): n/d rounded to the nearest integer, halves to the even
\* neighbour (d > 0, any sign of n).
RoundHalfEvenNat(n, d) ==
    LET q == n \div d
        r == n % d
    IN  IF 2 * r < d THEN q
        ELSE IF 2 * r > d THEN q + 1
        ELSE IF q % 2 = 0 THEN q ELSE q + 1

RoundHalfEven(n, d) == IF n >= 0 THEN RoundHalfEvenNat(n, d) ELSE -RoundHalfEvenNat(-n, d)

\* ceil(n/d) for d > 0
Ceil(n, d) == IF n >= 0 THEN (n + d - 1) \div d ELSE -((-n) \div d)

Range(s) == {s[i] : i \in 1..Len(s)}

----------------------------------------------------------------------------
(* utils/general.py : binary_search                                         *)
(* Python indices are 0-based: Python array[i] is array[i+1] here.          *)

MaxLen == 4     \* longest list searched
MaxVal == 4     \* list entries and search values range over 0..MaxVal

RECURSIVE binary_search_loop(_, _, _, _, _)
binary_search_loop(val, arr, low, high, closest) ==
    IF low <= high
    THEN LET mid == (low + high) \div 2
         IN  IF arr[mid + 1] <= val
             THEN binary_search_loop(val, arr, mid + 1, high, mid)
             ELSE binary_search_loop(val, arr, low, mid - 1, closest)
    ELSE closest

binary_search_mid_lost(val, arr) ==
    LET RECURSIVE loop(_, _, _)
        loop(low, high, closest) ==
            IF low < high
            THEN LET mid == (low + high) \div 2
                 IN  IF arr[mid + 1] <= val
                     THEN loop(mid + 1, high, mid)
                     ELSE loop(low, mid - 1, closest)
            ELSE closest
    IN  IF Len(arr) = 0 THEN -1 ELSE loop(0, Len(arr) - 1, -1)

binary_search(val, arr) ==
    IF Len(arr) = 0 THEN -1
    ELSE binary_search_loop(val, arr, 0, Len(arr) - 1, -1)

\* Disaster.get_function_by_date: the field of the greatest timestamp <= date,
\* or None (the lookup the tick calls; it is built on binary_search).
get_function_by_date(date, timeline, functions) ==
    LET i == binary_search(date, timeline)
    IN  IF i = -1 THEN None ELSE Some(functions[i + 1])

\* PanamaDrill.simulate, the branch on the lookup's result
TickMessage(f) == IF f = None THEN "Disaster has not started" ELSE "Force"

\* all ascending (non-strict) lists over 0..MaxVal of length <= MaxLen
AscendingArrays ==
    UNION { { a \in [1..n -> 0..MaxVal] : \A i \in 1..n, j \in 1..n : i < j => a[i] <= a[j] }
            : n \in 0..MaxLen }

SearchInit ==
    /\ array \in AscendingArrays
    /\ search_val \in 0..MaxVal
    /\ closest_index = -1
    /\ fun = None
    /\ tick_msg = ""
    /\ search_pc = "start"

\* the call binary_search(search_val, array)
BinarySearch ==
    /\ search_pc = "start"
    /\ closest_index' = binary_search(search_val, array)
    /\ search_pc' = "searched"
    /\ UNCHANGED <<array, search_val, fun, tick_msg>>

\* one tick's lookup: the timeline is `array`, field i is named by its index
TickLookup ==
    /\ search_pc = "searched"
    /\ search_pc' = "looked_up"
    /\ fun' = get_function_by_date(search_val, array, [i \in 1..Len(array) |-> i - 1])
    /\ tick_msg' = TickMessage(fun')
    /\ UNCHANGED <<array, search_val, closest_index>>

----------------------------------------------------------------------------
(* disasters/generic/earthquake.py : Earthquake.generate_disaster           *)
(* Dates are whole half hours, so that a duration can fall between two      *)
(* steps and on the half step that np.round sends to the even neighbour.    *)

HalfHoursPerHour == 2
HalfHoursPerDay  == 48

MaxHalfSteps == 7      \* dates are k half steps of the step unit, k <= MaxHalfSteps

QuakeMethods == {"linear", "exponential", "parabolic", "exponetial"}
QuakeUnits == {"hr", "day", "min"}
QuakeA0 == {0, 2}

\* An amplitude is (num/den) * exp(-e), kept exact.
Amp(num, den, e) == [num |-> num, den |-> den, e |-> e]
AmpEq(a, b) ==
    /\ a.num * b.den = b.num * a.den
    /\ (a.e = b.e \/ a.num = 0)
\* a < b, decided where the model needs it: equal exponent, or equal factor
AmpLess(a, b) ==
    IF a.e = b.e THEN a.num * b.den < b.num * a.den
    ELSE /\ a.num * b.den = b.num * a.den
         /\ \/ a.num > 0 /\ a.e > b.e
            \/ a.num < 0 /\ a.e < b.e

\* NormalDisasterFun(mean = epicenter, variance = vxy, amplitude = A)
NormalDisasterFun(A) == [type |-> "normal", mean |-> "epicenter", amplitude |-> A]
\* the continuity_fun handed to the constructor (a UniformDisasterFun)
continuity_fun == [type |-> "uniform", mean |-> "epicenter", amplitude |-> Amp(1, 1, 0)]

time_step(step_unit) == IF step_unit = "day" THEN HalfHoursPerDay ELSE HalfHoursPerHour

QuakeDates(step_unit) == { k * (time_step(step_unit) \div 2) : k \in 0..MaxHalfSteps }
QuakeStarts(step_unit) == { k * (time_step(step_unit) \div 2) : k \in 0..1 }

compute_steps_ceil(start, end, continuity, step_unit) ==
    IF continuity # None
    THEN Ceil(Val(continuity) - start, time_step(step_unit))
    ELSE Ceil(end - start, time_step(step_unit))

\* lines 145-153: steps = int(np.round(seconds / time_step.total_seconds()))
compute_steps(start, end, continuity, step_unit) ==
    IF continuity # None
    THEN RoundHalfEven(Val(continuity) - start, time_step(step_unit))
    ELSE RoundHalfEven(end - start, time_step(step_unit))

amplitude_by_index(method, A0, steps, step, A) ==
    IF method = "linear" THEN Amp(A0 * (steps - (step + 1)), steps, 0)
    ELSE IF method = "exponetial" THEN Amp(A0, 1, step + 1)
    ELSE IF method = "parabolic"
         THEN Amp(A0 * (steps * steps - (step + 1) * (step + 1)), steps * steps, 0)
    ELSE A

\* lines 176-181: the amplitude of the field appended at loop index `step`;
\* A is the amplitude left by the previous iteration
next_amplitude(method, A0, steps, step, A) ==
    IF method = "linear" THEN Amp(A0 * (steps - step), steps, 0)
    ELSE IF method = "exponetial" THEN Amp(A0, 1, step)
    ELSE IF method = "parabolic" THEN Amp(A0 * (steps * steps - step * step), steps * steps, 0)
    ELSE A

carries_continuity_at_end(continuity, t, end) == continuity # None /\ t >= end

\* line 173: the entry appended at time t is the continuity field
carries_continuity(continuity, t, end) == continuity # None /\ t > end

\* lines 171-191: the loop.  st is the loop's state: the two local lists, the
\* running amplitude A and the two attributes, which the last statement of
\* the loop body sets to the local lists (the same list objects, so the
\* attributes see every later append).
RECURSIVE generate_loop(_, _, _)
generate_loop(step, P, st) ==
    IF step >= P.steps THEN st
    ELSE LET t == st.timeline[step + 1] + time_step(P.step_unit)
             residual == carries_continuity(P.continuity, t, P.end)
             A == IF residual THEN st.A
                  ELSE next_amplitude(P.method, P.A0, P.steps, step, st.A)
             f == IF residual THEN continuity_fun ELSE NormalDisasterFun(A)
         IN  generate_loop(step + 1, P,
                 [timeline |-> Append(st.timeline, t),
                  functions |-> Append(st.functions, f),
                  A |-> A,
                  is_set |-> TRUE])

\* lines 164-191 for given attribute values
generate(start, end, continuity, method, step_unit, A0) ==
    LET steps == compute_steps(start, end, continuity, step_unit)
        P == [steps |-> steps, end |-> end, continuity |-> continuity,
              method |-> method, step_unit |-> step_unit, A0 |-> A0]
    IN  generate_loop(0, P,
            [timeline |-> <<start>>,
             functions |-> <<NormalDisasterFun(Amp(A0, 1, 0))>>,
             A |-> Amp(A0, 1, 0),
             is_set |-> FALSE])

QuakeInit ==
    /\ eq_method \in QuakeMethods
    /\ eq_step_unit \in QuakeUnits
    /\ eq_start_date \in QuakeStarts(eq_step_unit)
    /\ eq_end_date \in QuakeDates(eq_step_unit)
    /\ eq_continuity \in {Some(d) : d \in QuakeDates(eq_step_unit)} \cup {None}
    /\ eq_A0 \in QuakeA0
    /\ disaster_timeline = None
    /\ disaster_functions = None
    /\ eq_pc = "new"

\* lines 139-141: the assertions fail
GenerateAssertFails ==
    /\ eq_pc = "new"
    /\ \/ eq_method \notin {"linear", "exponential", "parabolic"}
       \/ eq_step_unit \notin {"hr", "day"}
    /\ eq_pc' = "AssertionError"
    /\ UNCHANGED <<eq_start_date, eq_end_date, eq_continuity, eq_method, eq_step_unit,
                   eq_A0, disaster_timeline, disaster_functions>>

\* generate_disaster() on an earthquake whose lists are not set
GenerateDisaster ==
    /\ eq_pc \in {"new", "generated"}
    /\ eq_method \in {"linear", "exponential", "parabolic"}
    /\ eq_step_unit \in {"hr", "day"}
    /\ disaster_timeline = None /\ disaster_functions = None
    /\ LET r == generate(eq_start_date, eq_end_date, eq_continuity,
                         eq_method, eq_step_unit, eq_A0)
       IN  /\ disaster_timeline' = IF r.is_set THEN Some(r.timeline) ELSE disaster_timeline
           /\ disaster_functions' = IF r.is_set THEN Some(r.functions) ELSE disaster_functions
    /\ eq_pc' = "generated"
    /\ UNCHANGED <<eq_start_date, eq_end_date, eq_continuity, eq_method, eq_step_unit, eq_A0>>

\* generate_disaster() again, the lists being set: lines 157-161 return
GenerateAgain ==
    /\ eq_pc = "generated"
    /\ disaster_timeline # None
    /\ Len(Val(disaster_functions)) = Len(Val(disaster_timeline))
    /\ eq_pc' = "returned"
    /\ UNCHANGED <<eq_start_date, eq_end_date, eq_continuity, eq_method, eq_step_unit,
                   eq_A0, disaster_timeline, disaster_functions>>

----------------------------------------------------------------------------
(* population_networks/generic/population_network_from_hdx_no_geometry.py   *)
(* build(): nodes from the places and the density raster, edges from the    *)
(* nodes.  Every point lies on the equator; a longitude is a whole number   *)
(* of grid steps of GridStepMicroRad microradians, so that the haversine    *)
(* distance of two points is exactly r * |lon1 - lon2|.                     *)

MIN_POPULATION == 500
MAX_DISTANCE_BETWEEN_ADJACENT_CITIES_KM == 8
EarthRadiusKm == 6371          \* r of geometric.haversine
MercatorRadiusKm == 6378       \* the sphere of EPSG:3857

GridStepMicroRad == 785        \* one grid step: about 5 km on the ground
MaxLon == 2                    \* longitudes are 0..MaxLon grid steps
MaxPlaces == 3                 \* rows of the populated places file
MaxCells == 2                  \* rows of the density raster

\* Z of a raster cell, in half persons per km2 (200.5 and 600)
ZHalves == {401, 1200}

\* a string is the sequence of its characters' code points
NameA == <<97>>
NameB == <<98>>
PlaceNames == {NameA, NameB, None}

\* str(label) for a label of one digit
DigitStr(n) == <<48 + n>>

\* Python's < on strings: lexicographic on code points
RECURSIVE StrLess(_, _)
StrLess(a, b) ==
    IF Len(b) = 0 THEN FALSE
    ELSE IF Len(a) = 0 THEN TRUE
    ELSE IF a[1] # b[1] THEN a[1] < b[1]
    ELSE StrLess(Tail(a), Tail(b))

\* geometric.haversine(lon1, 0, lon2, 0, True), metres
haversine(lon1, lon2) == (EarthRadiusKm * Abs(lon1 - lon2) * GridStepMicroRad) \div 1000

\* the x of a point in MANIPULATION_PROJECTION, metres
mercator_x(lon) == (MercatorRadiusKm * lon * GridStepMicroRad) \div 1000

InBox(x, lo, hi) == x <= hi /\ x >= lo

\* lines 258-263: the raster rows inside the bounding box
retained_density(cells, lo, hi) == SelectSeq(cells, LAMBDA c : InBox(c.X, lo, hi))

\* line 274: dropna(subset = "name").reset_index(drop = True): the row label
\* is the position among the named places
named_places(places) ==
    LET named == SelectSeq(places, LAMBDA p : p.name # None)
    IN  [i \in 1..Len(named) |-> [label |-> i - 1, name |-> named[i].name, lon |-> named[i].lon]]

\* lines 279-280: the places inside the bounding box; the rows keep their label
retained_places(places, lo, hi) ==
    SelectSeq(named_places(places), LAMBDA p : InBox(p.lon, lo, hi))

\* line 294: np.argmin of the distances from the cell to the retained places:
\* the position (from 0) of the first nearest one
closest_city(cell, retained) ==
    (CHOOSE i \in 1..Len(retained) :
        /\ \A j \in 1..Len(retained) :
              haversine(retained[i].lon, cell.X) <= haversine(retained[j].lon, cell.X)
        /\ \A j \in 1..(i - 1) :
              haversine(retained[j].lon, cell.X) > haversine(retained[i].lon, cell.X)) - 1

RECURSIVE SumZ(_, _, _)
SumZ(cells, retained, city) ==
    IF Len(cells) = 0 THEN 0
    ELSE (IF closest_city(cells[1], retained) = city THEN cells[1].Z ELSE 0)
         + SumZ(Tail(cells), retained, city)

\* the values of the "city" column
cities(cells, retained) == { closest_city(cells[i], retained) : i \in 1..Len(cells) }

\* lines 297-308: population = groupby("city").sum() is indexed by the city
\* value; the assignment to the places table aligns it on the row label, and
\* the rows it leaves empty are filled with MIN_POPULATION
population_by_label(cells, retained, pos, label) ==
    IF label \in cities(cells, retained)
    THEN RoundHalfEven(SumZ(cells, retained, label), 2)
    ELSE MIN_POPULATION

\* line 304: f"{row['name']}_{row.name}"
node_id(name, label) == name \o <<95>> \o DigitStr(label)

\* lines 297-319: the node table
build_nodes(cells, retained) ==
    [i \in 1..Len(retained) |->
        [id |-> node_id(retained[i].name, retained[i].label),
         lon |-> retained[i].lon,
         population |-> population_by_label(cells, retained, i - 1, retained[i].label)]]

either_order(id1, id2) == id1 # id2

\* line 366: the rows kept of the candidate pairs
canonical_order(id1, id2) == StrLess(id2, id1)

\* lines 358-365: for every row of city_centers, in order, the rows within
\* dist_meters of it in both projected coordinates; row k is pair (i, j)
candidate_pairs(ns) ==
    LET n == Len(ns)
        dist_meters == MAX_DISTANCE_BETWEEN_ADJACENT_CITIES_KM * 1000
        all == [k \in 1..(n * n) |-> <<((k - 1) \div n) + 1, ((k - 1) % n) + 1>>]
    IN  SelectSeq(all, LAMBDA pr :
            Abs(mercator_x(ns[pr[2]].lon) - mercator_x(ns[pr[1]].lon)) < dist_meters)

\* lines 365-411: the edge table
build_edges(ns) ==
    LET ordered == SelectSeq(candidate_pairs(ns),
                       LAMBDA pr : canonical_order(ns[pr[1]].id, ns[pr[2]].id))
        near == SelectSeq(ordered, LAMBDA pr :
                    haversine(ns[pr[1]].lon, ns[pr[2]].lon)
                        < MAX_DISTANCE_BETWEEN_ADJACENT_CITIES_KM * 1000)
    IN  [k \in 1..Len(near) |->
            [node_id1 |-> ns[near[k][1]].id, node_id2 |-> ns[near[k][2]].id, value |-> 1]]

PlaceRows == UNION { [1..n -> [name : PlaceNames, lon : 0..MaxLon]] : n \in 1..MaxPlaces }
DensityRows == UNION { [1..n -> [X : 0..MaxLon, Z : ZHalves]] : n \in 1..MaxCells }

BuildInit ==
    /\ \E box \in {<<0, MaxLon>>, <<1, MaxLon>>, <<0, MaxLon - 1>>} :
          min_lon = box[1] /\ max_lon = box[2]
    /\ world_pop_density \in DensityRows
    /\ populated_places \in PlaceRows
    /\ nodes = None
    /\ edges = None
    /\ build_pc = "new"

\* build() raises ValueError: when no place is left, from np.argmin of an
\* empty list (line 294) or pd.concat of no frames (line 365); when no raster
\* row is left, apply returns an empty frame, and its assignment to the "city"
\* column (line 297) either raises or leaves the column empty (then Build)
BuildRaises ==
    /\ build_pc = "new"
    /\ \/ Len(retained_places(populated_places, min_lon, max_lon)) = 0
       \/ Len(retained_density(world_pop_density, min_lon, max_lon)) = 0
    /\ build_pc' = "ValueError"
    /\ UNCHANGED <<min_lon, max_lon, world_pop_density, populated_places, nodes, edges>>

\* build() with nothing in memory and nothing in the cache
Build ==
    /\ build_pc = "new"
    /\ nodes = None /\ edges = None
    /\ LET retained == retained_places(populated_places, min_lon, max_lon)
           cells == retained_density(world_pop_density, min_lon, max_lon)
       IN  /\ Len(retained) > 0
           /\ nodes' = Some(build_nodes(cells, retained))
           /\ edges' = Some(build_edges(build_nodes(cells, retained)))
    /\ build_pc' = "built"
    /\ UNCHANGED <<min_lon, max_lon, world_pop_density, populated_places>>

----------------------------------------------------------------------------
(* simulations/specific/PanamaDrill.py : PanamaDrill.simulate               *)
(* A date is a whole number of clock units (the resolution of datetime and  *)
(* timedelta); a date string has the resolution of one second.  Node ids    *)
(* are 1..NumNodes, device ids 0..total_elements-1.                         *)

NumNodes == 3            \* nodes of the network
UnitsPerSecond == 2      \* clock units in one second
MaxEnd == 5              \* end_date <= MaxEnd clock units
MaxFrequency == 5        \* frequency <= MaxFrequency half clock units
MaxTicks == 5            \* passes of the loop followed (the loop may not end)
MaxPopulated == 2        \* nodes with inhabitants (3 each)
CoverageTenths == 3      \* population_with_coverage = 0.3

Nodes == 1..NumNodes

\* datetime.timedelta(hours = frequency): rounded to the clock's resolution
timedelta(freq) == RoundHalfEven(freq, 2)

\* current_date.strftime("%m-%d-%Y_%H:%M:%S"): the date cut to whole seconds
strftime(date) == date \div UnitsPerSecond

MaxOf(S) == CHOOSE x \in S : \A y \in S : y <= x

RECURSIVE SumPopulation(_, _)
SumPopulation(pop, S) ==
    IF S = {} THEN 0
    ELSE LET v == CHOOSE x \in S : TRUE IN pop[v] + SumPopulation(pop, S \ {v})

\* the outcomes of independent random draws: every sequence that takes its
\* i-th entry from the i-th set
RECURSIVE Draws(_)
Draws(sets) ==
    IF Len(sets) = 0 THEN {<<>>}
    ELSE { <<h>> \o t : h \in sets[1], t \in Draws(Tail(sets)) }

\* lines 71-93: the neighbours of every node, the node itself included
extract_neighbors(es) ==
    [v \in Nodes |-> {v} \cup { e[2] : e \in { x \in es : x[1] = v } }
                         \cup { e[1] : e \in { x \in es : x[2] = v } }]

\* a float of a disaster field: a number, or NaN
NaN == <<>>
Num(x) == <<x>>

\* update_flow(force): all forces are kept as numerators over the largest
\* population (attractive = population / sum / max(population / sum));
\* force is None or Some(intensity per node); nan tells that the final force
\* is NaN (the number kept beside it then means nothing)
update_flow_added(pop, force) ==
    LET top == MaxOf({pop[v] : v \in Nodes})
        r(v) == IF Val(force)[v] = NaN THEN 0 ELSE Val(force)[v][1]
    IN  [v \in Nodes |->
            [attractive_force |-> pop[v],
             repelling_force |-> IF force = None THEN None ELSE Some(r(v) * top),
             final_force |-> IF force = None THEN pop[v] ELSE pop[v] + r(v) * top,
             nan |-> force # None /\ Val(force)[v] = NaN]]

update_flow(pop, force) ==
    LET top == MaxOf({pop[v] : v \in Nodes})
        r(v) == IF Val(force)[v] = NaN THEN 0 ELSE Val(force)[v][1]
    IN  [v \in Nodes |->
            [attractive_force |-> pop[v],
             repelling_force |-> IF force = None THEN None ELSE Some(r(v) * top),
             final_force |-> IF force = None THEN pop[v] ELSE pop[v] - r(v) * top,
             nan |-> force # None /\ Val(force)[v] = NaN]]

\* extract_destination_node, line 234: the neighbours kept by
\* sort_values(...).head(min(5, n)), NaN sorted last; equal forces may be
\* kept in any order
top_forces_lowest(adj, frc) ==
    LET k == IF Cardinality(adj) < 5 THEN Cardinality(adj) ELSE 5
    IN  { T \in SUBSET adj :
            /\ Cardinality(T) = k
            /\ \A a \in T, b \in adj \ T :
                  frc[b].nan \/ (~frc[a].nan /\ frc[a].final_force <= frc[b].final_force) }

top_forces(adj, frc) ==
    LET k == IF Cardinality(adj) < 5 THEN Cardinality(adj) ELSE 5
    IN  { T \in SUBSET adj :
            /\ Cardinality(T) = k
            /\ \A a \in T, b \in adj \ T :
                  frc[b].nan \/ (~frc[a].nan /\ frc[a].final_force >= frc[b].final_force) }

RECURSIVE SumForces(_, _)
SumForces(frc, S) ==
    IF S = {} THEN 0
    ELSE LET v == CHOOSE x \in S : TRUE IN frc[v].final_force + SumForces(frc, S \ {v})

\* extract_destination_node, lines 231-243: np.random.choice raises ValueError
\* for the kept neighbours T.  The weights are expit(final force) > 0 with
\* disaster and the final forces without; they are divided by their sum (NaN
\* skipped).  A NaN weight stays NaN, a sum of 0 makes every probability NaN,
\* and a weight of the sign opposite to the sum is a negative probability
choice_raises(T, frc, on) ==
    \/ \E v \in T : frc[v].nan
    \/ /\ ~on
       /\ \/ SumForces(frc, T) = 0
          \/ \E v \in T : frc[v].final_force * SumForces(frc, T) < 0

\* extract_destination_node, lines 228-244: the nodes np.random.choice can
\* return for a device at rest whose kept neighbours are T: those of
\* probability > 0 (none when it raises)
destinations(T, frc, on) ==
    IF choice_raises(T, frc, on) THEN {}
    ELSE IF on THEN T
    ELSE { v \in T : frc[v].final_force # 0 }

\* lines 174-187: what becomes of a device in transit from s to e
\*   p = g(final[e]) / (g(final[e]) + g(final[s])), g = expit with disaster
\*   u in [0, 1);  u <= p: arrived;  u > p: turned back;
\*   p NaN (a NaN force, or 0 / 0): neither comparison holds, the row is left
transit_outcomes(s, e, frc, on) ==
    LET fe == frc[e].final_force
        fs == frc[s].final_force
    IN  IF frc[e].nan \/ frc[s].nan \/ (~on /\ fe + fs = 0) THEN { <<s, e>> }
        ELSE IF on THEN { <<e, e>>, <<s, s>> }
        ELSE (IF fe * (fe + fs) >= 0 THEN { <<e, e>> } ELSE {})
             \cup (IF fs * (fe + fs) > 0 THEN { <<s, s>> } ELSE {})

\* line 194: pd.concat((new_edge_trajectories, new_node_trajectories)); a row
\* is [id, start_node, end_node], its index label is the id
concat(a, b) == a \o b

\* line 196: frame.loc[ids, END_NODE].values: for every id, in order, the
\* end_node of every row labelled id
RECURSIVE loc_end_node(_, _)
loc_end_node(frame, ids) ==
    IF Len(ids) = 0 THEN <<>>
    ELSE LET hits == SelectSeq(frame, LAMBDA r : r.id = ids[1])
         IN  [i \in 1..Len(hits) |-> hits[i].end_node] \o loc_end_node(frame, Tail(ids))

sample_stays(current_state, target_nodes) ==
    [i \in 1..Len(current_state) |->
        [id |-> current_state[i].id, node_id |-> current_state[i].node_id]]

sample_moved(current_state, target_nodes) ==
    LET idx == SelectSeq([i \in 1..Len(current_state) |-> i],
                         LAMBDA i : current_state[i].node_id # target_nodes[i])
    IN  [k \in 1..Len(idx) |-> [id |-> current_state[idx[k]].id, node_id |-> target_nodes[idx[k]]]]

\* population_network.sample(current_state, target_nodes): a copy of
\* current_state with node_id (and the position) replaced
sample(current_state, target_nodes) ==
    [i \in 1..Len(current_state) |->
        [id |-> current_state[i].id, node_id |-> target_nodes[i]]]

\* export_iteration: the rows written, columns id and date
exported_rows(df, date_string) == [i \in 1..Len(df) |-> [id |-> df[i].id, date |-> date_string]]

\* the device ids of a frame, in row order
Ids(df) == [i \in 1..Len(df) |-> df[i].id]

\* lines 67-140 raise: np.random.choice in initial_sample gets NaN
\* probabilities when the populations sum to 0
SetupRaises ==
    /\ sim_pc = "new"
    /\ SumPopulation(population, Nodes) = 0
    /\ sim_pc' = "ValueError"
    /\ UNCHANGED <<sim_start_date, sim_end_date, frequency, group_keys, population, sim_edges,
                   sim_timeline, sim_functions, adjacent_nodes, disaster_on, forces, total_elements,
                   device_positions, device_trajectories, current_date, node_trajectories,
                   edge_trajectories, results_folder, export_log, ticks_started>>

\* lines 67-140: adjacency, the devices and their first destination, for a
\* network whose edges were read from the cache (SpecAdjacency has the loop
\* over the frame build() leaves in memory)
Setup ==
    /\ sim_pc = "new"
    /\ SumPopulation(population, Nodes) > 0
    /\ LET n == RoundHalfEven(CoverageTenths * SumPopulation(population, Nodes), 10)
           adj == extract_neighbors(sim_edges)
           frc == update_flow(population, None)
       IN  /\ adjacent_nodes' = adj
           /\ disaster_on' = FALSE
           /\ total_elements' = n
           /\ forces' = frc
           \* initial_sample: a node of positive population for every device
           /\ \E at \in Draws([i \in 1..n |-> { v \in Nodes : population[v] > 0 }]) :
              \E top \in Draws([v \in Nodes |-> top_forces(adj[v], frc)]) :
              \E to \in Draws([i \in 1..n |-> destinations(top[at[i]], frc, FALSE)]) :
                 /\ device_positions' = [i \in 1..n |-> [id |-> i - 1, node_id |-> at[i]]]
                 /\ device_trajectories' =
                        [d \in 0..(n - 1) |-> [start_node |-> at[d + 1], end_node |-> to[d + 1]]]
    /\ current_date' = sim_start_date
    /\ sim_pc' = "loop"
    /\ UNCHANGED <<sim_start_date, sim_end_date, frequency, group_keys, population, sim_edges,
                   sim_timeline, sim_functions, node_trajectories, edge_trajectories,
                   results_folder, export_log, ticks_started>>

Devices == 0..(total_elements - 1)
AtRest == { d \in Devices : device_trajectories[d].start_node = device_trajectories[d].end_node }
InTransit == Devices \ AtRest

\* lines 148-159: the lookup and the force update of a tick
TickField == get_function_by_date(current_date, sim_timeline, sim_functions)
TickForces == update_flow(population, TickField)
TickDisasterOn_late == disaster_on
TickDisasterOn == disaster_on \/ TickField # None

\* a pass of the loop raises ValueError in extract_destination_node (line 168):
\* np.random.choice rejects the probabilities of some group of devices at rest
TickChoiceRaises ==
    /\ sim_pc = "loop"
    /\ current_date <= sim_end_date
    /\ ticks_started < MaxTicks
    /\ \E top \in Draws([v \in Nodes |-> top_forces(adjacent_nodes[v], TickForces)]) :
          \E d \in AtRest :
             choice_raises(top[device_trajectories[d].start_node], TickForces, TickDisasterOn)
    /\ ticks_started' = ticks_started + 1
    /\ node_trajectories' = AtRest
    /\ edge_trajectories' = InTransit
    /\ disaster_on' = TickDisasterOn
    /\ forces' = TickForces
    /\ sim_pc' = "ValueError: probabilities"
    /\ UNCHANGED <<sim_start_date, sim_end_date, frequency, group_keys, population, sim_edges,
                   sim_timeline, sim_functions, adjacent_nodes, total_elements, device_positions,
                   device_trajectories, current_date, results_folder, export_log>>

\* a pass of the loop raises ValueError: line 170 drops a level of
\* device_trajectories, whose index has one level, when the groupby result of
\* line 168 carries the group key (and some device is at rest)
TickRaises ==
    /\ sim_pc = "loop"
    /\ current_date <= sim_end_date
    /\ ticks_started < MaxTicks
    /\ group_keys /\ AtRest # {}
    /\ \E top \in Draws([v \in Nodes |-> top_forces(adjacent_nodes[v], TickForces)]) :
          \A d \in AtRest :
             ~choice_raises(top[device_trajectories[d].start_node], TickForces, TickDisasterOn)
    /\ ticks_started' = ticks_started + 1
    /\ node_trajectories' = AtRest
    /\ edge_trajectories' = InTransit
    /\ disaster_on' = TickDisasterOn
    /\ forces' = TickForces
    /\ sim_pc' = "ValueError"
    /\ UNCHANGED <<sim_start_date, sim_end_date, frequency, group_keys, population, sim_edges,
                   sim_timeline, sim_functions, adjacent_nodes, total_elements, device_positions,
                   device_trajectories, current_date, results_folder, export_log>>

\* lines 142-208: one pass of the loop
Tick ==
    /\ sim_pc = "loop"
    /\ current_date <= sim_end_date
    /\ ticks_started < MaxTicks
    /\ ~(group_keys /\ AtRest # {})
    /\ LET frc == TickForces
           on == TickDisasterOn
           date_string == strftime(current_date)
       IN  \E top \in Draws([v \in Nodes |-> top_forces(adjacent_nodes[v], frc)]) :
           \E next \in Draws([i \in 1..total_elements |->
                   LET s == device_trajectories[i - 1].start_node
                       e == device_trajectories[i - 1].end_node
                   IN  IF s = e THEN { <<s, v>> : v \in destinations(top[s], frc, on) }
                       ELSE transit_outcomes(s, e, frc, on)]) :
              /\ LET row(d) == [id |-> d, start_node |-> next[d + 1][1],
                                end_node |-> next[d + 1][2]]
                     ids == Ids(device_positions)
                     new_edge_trajectories ==
                         [r \in 1..Len(SelectSeq(ids, LAMBDA d : d \in AtRest)) |->
                             row(SelectSeq(ids, LAMBDA d : d \in AtRest)[r])]
                     new_node_trajectories ==
                         [r \in 1..Len(SelectSeq(ids, LAMBDA d : d \in InTransit)) |->
                             row(SelectSeq(ids, LAMBDA d : d \in InTransit)[r])]
                     new_device_trajectories == concat(new_edge_trajectories, new_node_trajectories)
                     target_nodes == loc_end_node(new_device_trajectories, ids)
                     new_device_positions == sample(device_positions, target_nodes)
                 IN  /\ results_folder' =
                            [f \in DOMAIN results_folder \cup {date_string} |->
                                IF f = date_string
                                THEN exported_rows(new_device_positions, date_string)
                                ELSE results_folder[f]]
                     /\ export_log' = Append(export_log, date_string)
                     /\ device_positions' = new_device_positions
                     /\ device_trajectories' =
                            [d \in Devices |-> [start_node |-> next[d + 1][1],
                                                end_node |-> next[d + 1][2]]]
              /\ forces' = frc
              /\ disaster_on' = on
    /\ node_trajectories' = AtRest
    /\ edge_trajectories' = InTransit
    /\ current_date' = current_date + timedelta(frequency)
    /\ ticks_started' = ticks_started + 1
    /\ UNCHANGED <<sim_start_date, sim_end_date, frequency, group_keys, population, sim_edges,
                   sim_timeline, sim_functions, adjacent_nodes, total_elements, sim_pc>>

\* a pass of the loop in which export_iteration (line 202) raises OSError: the
\* folder or the file cannot be written.  Nothing catches it, neither in
\* export_iteration nor in the loop: simulate ends with the error before the
\* device frames and the date advance (lines 205-208)
TickExportFails ==
    /\ sim_pc = "loop"
    /\ current_date <= sim_end_date
    /\ ticks_started < MaxTicks
    /\ ~(group_keys /\ AtRest # {})
    /\ \E top \in Draws([v \in Nodes |-> top_forces(adjacent_nodes[v], TickForces)]) :
          Draws([i \in 1..total_elements |->
                  LET s == device_trajectories[i - 1].start_node
                      e == device_trajectories[i - 1].end_node
                  IN  IF s = e THEN { <<s, v>> : v \in destinations(top[s], TickForces,
                                                                     TickDisasterOn) }
                      ELSE transit_outcomes(s, e, TickForces, TickDisasterOn)]) # {}
    /\ ticks_started' = ticks_started + 1
    /\ node_trajectories' = AtRest
    /\ edge_trajectories' = InTransit
    /\ disaster_on' = TickDisasterOn
    /\ forces' = TickForces
    /\ sim_pc' = "OSError"
    /\ UNCHANGED <<sim_start_date, sim_end_date, frequency, group_keys, population, sim_edges,
                   sim_timeline, sim_functions, adjacent_nodes, total_elements, device_positions,
                   device_trajectories, current_date, results_folder, export_log>>

\* line 142: the loop condition fails, simulate returns
Finish ==
    /\ sim_pc = "loop"
    /\ current_date > sim_end_date
    /\ sim_pc' = "done"
    /\ UNCHANGED <<sim_start_date, sim_end_date, frequency, group_keys, population, sim_edges,
                   sim_timeline, sim_functions, adjacent_nodes, disaster_on, forces, total_elements,
                   device_positions, device_trajectories, current_date, node_trajectories,
                   edge_trajectories, results_folder, export_log, ticks_started>>

\* the state before simulate(), for given attributes
SimNew ==
    /\ adjacent_nodes = [v \in Nodes |-> {}]
    /\ disaster_on = FALSE
    /\ forces = [v \in Nodes |-> [attractive_force |-> 0, repelling_force |-> None,
                                  final_force |-> 0, nan |-> FALSE]]
    /\ total_elements = 0
    /\ device_positions = <<>>
    /\ device_trajectories = <<>>
    /\ current_date = 0
    /\ node_trajectories = {}
    /\ edge_trajectories = {}
    /\ results_folder = <<>>
    /\ export_log = <<>>
    /\ ticks_started = 0
    /\ sim_pc = "new"

\* the networks and disasters of the runs followed
\* the first k nodes populated, for every k up to MaxPopulated
\* and a network of two towns of different size
Populations == { [v \in Nodes |-> IF v <= k THEN 3 ELSE 0] : k \in 0..MaxPopulated }
                    \cup { [v \in Nodes |-> IF v = 1 THEN 6 ELSE IF v = 2 THEN 3 ELSE 0] }
EdgeTables == { {}, {<<2, 1>>}, {<<2, 1>>, <<3, 2>>} }
\* no disaster; a disaster of two entries that repels node 1, starting at
\* date 2; a disaster starting at date 2 whose field is NaN at node 1 (a
\* Gaussian of variance 0 at a node on the epicentre's latitude)
NaNDisaster == [timeline |-> <<2>>,
                intensities |-> << [v \in Nodes |-> IF v = 1 THEN NaN ELSE Num(0)] >>]
Disasters == { [timeline |-> <<>>, intensities |-> <<>>],
               [timeline |-> <<2, 4>>,
                intensities |-> << [v \in Nodes |-> IF v = 1 THEN Num(2) ELSE Num(0)],
                                   [v \in Nodes |-> IF v = 1 THEN Num(1) ELSE Num(0)] >>],
               NaNDisaster }

\* runs of whole-second frequency over every network
SimInit ==
    /\ sim_start_date = 0
    /\ sim_end_date \in {0, MaxEnd}
    /\ frequency = 2 * UnitsPerSecond
    /\ group_keys \in BOOLEAN
    /\ population \in Populations
    /\ sim_edges \in EdgeTables
    /\ \E dis \in Disasters : sim_timeline = dis.timeline /\ sim_functions = dis.intensities
    /\ SimNew

\* runs of every start, end and frequency over one network of two devices
\* (and one without population), without disaster or with the NaN field
ClockInit ==
    /\ sim_start_date \in {0, 1}
    /\ sim_end_date \in 0..MaxEnd
    /\ frequency \in 1..MaxFrequency
    /\ group_keys \in BOOLEAN
    /\ population \in { [v \in Nodes |-> IF v <= 2 THEN 3 ELSE 0], [v \in Nodes |-> 0] }
    /\ sim_edges = {<<2, 1>>}
    /\ \E dis \in { [timeline |-> <<>>, intensities |-> <<>>], NaNDisaster } :
          sim_timeline = dis.timeline /\ sim_functions = dis.intensities
    /\ SimNew

----------------------------------------------------------------------------
(* population_networks/generic/population_network_from_hdx.py and           *)
(* population_network_from_hdx_no_geometry.py : build() and the cache       *)
(* The content of an artefact is "old" (a file that was in the cache before *)
(* the network was made) or "new" (computed by this network).               *)

MaxCalls == 3            \* calls made to one network

AllArtefacts == {"nodes", "node_samples", "edges", "edge_samples"}

\* the artefacts of a class, in the order build() handles them
Artefacts(kind) ==
    IF kind = "hdx" THEN <<"nodes", "node_samples", "edges", "edge_samples">>
    ELSE <<"nodes", "edges">>

get_from_cache_missing(cache, a) == None

\* get_nodes_from_cache, get_edges_from_cache, get_node_samples_from_cache,
\* get_edge_samples_from_cache: None if the file does not exist
get_from_cache(cache, a) == cache[a]

build_artefact_always(a, st) ==
    IF st.memory[a] = None
    THEN [memory |-> [st.memory EXCEPT ![a] = Some("new")],
          cache  |-> [st.cache EXCEPT ![a] = Some("new")],
          stdout |-> st.stdout \o << <<"loads", a>>, <<"scratch", a>>, <<"saving", a>> >>]
    ELSE [memory |-> st.memory, cache |-> st.cache,
          stdout |-> st.stdout \o << <<"loads", a>> >>]

\* one artefact's block of build(): memory, then the cache, then the
\* computation followed by the save
build_artefact(a, st) ==
    LET loaded == IF st.memory[a] = None THEN get_from_cache(st.cache, a) ELSE st.memory[a]
        read == IF st.memory[a] = None /\ loaded # None THEN << <<"reading", a>> >> ELSE <<>>
    IN  IF loaded = None
        THEN [memory |-> [st.memory EXCEPT ![a] = Some("new")],
              cache  |-> [st.cache EXCEPT ![a] = Some("new")],
              stdout |-> st.stdout \o << <<"loads", a>>, <<"scratch", a>>, <<"saving", a>> >>]
        ELSE [memory |-> [st.memory EXCEPT ![a] = loaded],
              cache  |-> st.cache,
              stdout |-> st.stdout \o << <<"loads", a>> >> \o read]

RECURSIVE build_blocks(_, _)
build_blocks(arts, st) ==
    IF Len(arts) = 0 THEN st ELSE build_blocks(Tail(arts), build_artefact(arts[1], st))

\* build(): lines 202-456 (hdx), 235-415 (no geometry)
build(kind, memory, cache, stdout) ==
    build_blocks(Artefacts(kind),
                 [memory |-> memory, cache |-> cache, stdout |-> Append(stdout, <<"builds", "">>)])

\* the properties nodes and edges, sample_from_node and sample_from_edge:
\* memory, then the cache, then build()
get_artefact(kind, a, memory, cache) ==
    LET loaded == IF memory[a] = None THEN get_from_cache(cache, a) ELSE memory[a]
        read == IF memory[a] = None /\ loaded # None THEN << <<"reading", a>> >> ELSE <<>>
    IN  IF loaded = None THEN build(kind, memory, cache, <<>>)
        ELSE [memory |-> [memory EXCEPT ![a] = loaded], cache |-> cache, stdout |-> read]

BuildRan(stdout) == \E i \in 1..Len(stdout) : stdout[i][1] = "builds"

CacheInit ==
    /\ hdx_kind \in {"hdx", "no_geometry"}
    /\ hdx_memory = [a \in AllArtefacts |-> None]
    /\ hdx_cache \in [AllArtefacts -> {None, Some("old")}]
    /\ \A a \in AllArtefacts : hdx_cache[a] # None => \E i \in 1..Len(Artefacts(hdx_kind)) :
                                                          Artefacts(hdx_kind)[i] = a
    /\ hdx_stdout = <<>>
    /\ hdx_builds = 0
    /\ hdx_calls = 0

\* network.build()
CallBuild ==
    /\ hdx_calls < MaxCalls
    /\ LET r == build(hdx_kind, hdx_memory, hdx_cache, <<>>)
       IN  /\ hdx_memory' = r.memory
           /\ hdx_cache' = r.cache
           /\ hdx_stdout' = r.stdout
    /\ hdx_builds' = hdx_builds + 1
    /\ hdx_calls' = hdx_calls + 1
    /\ UNCHANGED hdx_kind

\* network.nodes, network.edges; for the hdx class also sample_from_node and
\* sample_from_edge, which look up node_samples and edge_samples
CallGetter ==
    /\ hdx_calls < MaxCalls
    /\ \E i \in 1..Len(Artefacts(hdx_kind)) :
          LET r == get_artefact(hdx_kind, Artefacts(hdx_kind)[i], hdx_memory, hdx_cache)
          IN  /\ hdx_memory' = r.memory
              /\ hdx_cache' = r.cache
              /\ hdx_stdout' = r.stdout
              /\ hdx_builds' = IF BuildRan(r.stdout) THEN hdx_builds + 1 ELSE hdx_builds
    /\ hdx_calls' = hdx_calls + 1
    /\ UNCHANGED hdx_kind

----------------------------------------------------------------------------
(* utils/general.py : load_ping_data, utils/errors.py : write_error          *)
(* A file is [kind, rows]: what it holds and its number of data rows.       *)

MaxFiles == 3            \* files in the directory
MaxPingRows == 2         \* data rows in a file

DATASET_MIN_COLS == {"id", "lat", "lon", "date"}

\* the files met: a well-formed one, one without the date column, one with a
\* date that is not in DEFAULT_DT_FORMAT, one without lat, one that is no csv
FileKinds == {"ok", "no_date", "bad_date", "no_lat", "not_csv"}

\* pd.read_csv(file_path, parse_dates = [DATE], date_parser = ...): the frame
\* read, or None when it raises (no csv, parse_dates names a missing column,
\* date_parser fails on a value)
read_csv(file, name) ==
    IF file.kind \in {"not_csv", "no_date", "bad_date"} THEN None
    ELSE Some([columns |-> IF file.kind = "no_lat" THEN DATASET_MIN_COLS \ {"lat"}
                           ELSE DATASET_MIN_COLS,
               rows |-> [r \in 1..file.rows |-> <<name, r>>]])

\* write_error(source, msg, type, timestamp): the row appended
write_error(log, name, type) == Append(log, [file |-> name, type |-> type])

load_files_stop(dir, i, st) ==
    IF i > Len(dir) \/ read_csv(dir[i], i) = None THEN st
    ELSE [df |-> st.df \o Val(read_csv(dir[i], i)).rows, errors |-> st.errors]

\* lines 59-79: the loop over the listing, from its i-th file on
RECURSIVE load_files(_, _, _)
load_files(dir, i, st) ==
    IF i > Len(dir) THEN st
    ELSE LET df_tmp == read_csv(dir[i], i)
         IN  IF df_tmp = None
             THEN load_files(dir, i + 1,
                             [df |-> st.df, errors |-> write_error(st.errors, i, "error")])
             ELSE IF ~(DATASET_MIN_COLS \subseteq Val(df_tmp).columns)
             THEN load_files(dir, i + 1,
                             [df |-> st.df, errors |-> write_error(st.errors, i, "error")])
             ELSE load_files(dir, i + 1,
                             [df |-> st.df \o Val(df_tmp).rows, errors |-> st.errors])

PingFiles ==
    { [kind |-> k, rows |-> n] : k \in {"ok", "no_lat"}, n \in 0..MaxPingRows }
        \cup { [kind |-> k, rows |-> 1] : k \in {"no_date", "bad_date", "not_csv"} }

PingInit ==
    /\ ping_dir \in UNION { [1..n -> PingFiles] : n \in 0..MaxFiles }
    /\ ping_df = None
    /\ ping_errors = <<>>
    /\ ping_pc = "new"

\* load_ping_data(data_dir) returns
LoadPingData ==
    /\ ping_pc = "new"
    /\ LET r == load_files(ping_dir, 1, [df |-> <<>>, errors |-> ping_errors])
       IN  /\ r.df # <<>>
           /\ ping_df' = Some(r.df)
           /\ ping_errors' = r.errors
    /\ ping_pc' = "returned"
    /\ UNCHANGED ping_dir

\* load_ping_data(data_dir) raises: the frame is empty (lines 82-83)
LoadPingDataRaises ==
    /\ ping_pc = "new"
    /\ LET r == load_files(ping_dir, 1, [df |-> <<>>, errors |-> ping_errors])
       IN  /\ r.df = <<>>
           /\ ping_errors' = r.errors
    /\ ping_pc' = "Exception"
    /\ UNCHANGED <<ping_dir, ping_df>>

----------------------------------------------------------------------------
(* utils/facebook.py : extract_quad_keys, tileXY_to_quadkey                 *)
(* A string is a sequence of characters.  A coordinate is a whole number of *)
(* pixels of the level's map: a longitude lon degrees is the number         *)
(* mapsize * lon / 360, a latitude is its Mercator ordinate                 *)
(* mapsize * log((1 + sin) / (1 - sin)) / (4 * pi), both computed in real   *)
(* arithmetic, so that line 59 is the exact inverse of line 42.             *)

MaxLevel == 3
PointsPerTile == 2

TilePixels == 256

RECURSIVE np_power(_, _)
np_power(b, e) == IF e = 0 THEN 1 ELSE b * np_power(b, e - 1)

\* 256 * 2^level, the side of the map in pixels (line 53)
mapsize(level) == TilePixels * np_power(2, level)

\* 180 degrees of longitude, as pixels
HalfTurn(level) == mapsize(level) \div 2

\* the clip value 85.05112878 of line 32: it lies just above the latitude
\* 85.0511287798... whose ordinate is mapsize / 2, by less than one grid step
ClipLatitude(level) == mapsize(level) \div 2 + 1

Bit(b) == IF b = 0 THEN "0" ELSE "1"

\* format(n, 'b')
RECURSIVE format_b(_)
format_b(n) ==
    IF n < 0 THEN <<"-">> \o format_b(-n)
    ELSE IF n < 2 THEN <<Bit(n)>>
    ELSE format_b(n \div 2) \o <<Bit(n % 2)>>

\* range(length - len(string)) is empty when the string is longer
trailing_zeroes(string, length) ==
    IF length > Len(string) THEN [i \in 1..(length - Len(string)) |-> "0"] \o string
    ELSE string

\* int() of a string of two characters (a sign or a digit, then a digit)
int(string) ==
    LET digit(c) == IF c = "0" THEN 0 ELSE 1
    IN  IF string[1] = "-" THEN -digit(string[2])
        ELSE 10 * digit(string[1]) + digit(string[2])

\* str() of a number in 0..3
str(n) == CASE n = 0 -> "0" [] n = 1 -> "1" [] n = 2 -> "2" [] n = 3 -> "3"

tileXY_to_quadkey_XY(tileX, tileY, level) ==
    LET tileX_b == IF Len(format_b(tileX)) = level THEN format_b(tileX)
                   ELSE trailing_zeroes(format_b(tileX), level)
        tileY_b == IF Len(format_b(tileY)) = level THEN format_b(tileY)
                   ELSE trailing_zeroes(format_b(tileY), level)
        quadkey_b == [k \in 1..(2 * level) |->
                         IF k % 2 = 1 THEN tileX_b[(k + 1) \div 2] ELSE tileY_b[k \div 2]]
    IN  [i \in 1..level |-> str(int(<<quadkey_b[2 * i - 1], quadkey_b[2 * i]>>) % 4)]

tileXY_to_quadkey(tileX, tileY, level) ==
    LET tileX_b == IF Len(format_b(tileX)) = level THEN format_b(tileX)
                   ELSE trailing_zeroes(format_b(tileX), level)
        tileY_b == IF Len(format_b(tileY)) = level THEN format_b(tileY)
                   ELSE trailing_zeroes(format_b(tileY), level)
        quadkey_b == [k \in 1..(2 * level) |->
                         IF k % 2 = 1 THEN tileY_b[(k + 1) \div 2] ELSE tileX_b[k \div 2]]
    IN  [i \in 1..level |-> str(int(<<quadkey_b[2 * i - 1], quadkey_b[2 * i]>>) % 4)]

\* np.where(v < lo, lo, np.where(v > hi, hi, v))
clip(v, lo, hi) == IF v < lo THEN lo ELSE IF v > hi THEN hi ELSE v

\* lines 41-46: the tile of a point
tile_of(poi, level) ==
    LET latitude == clip(poi.latitude, -ClipLatitude(level), ClipLatitude(level))
        pixelX   == poi.longitude + HalfTurn(level)
        pixelY   == mapsize(level) \div 2 - latitude
    IN  <<pixelX \div TilePixels, pixelY \div TilePixels>>

extract_quad_keys(poi, level) ==
    LET tileX == tile_of(poi, level)[1]
        tileY == tile_of(poi, level)[2]
        x == clip(tileX * TilePixels, 0, mapsize(level) - 1) - HalfTurn(level)
        y == mapsize(level) \div 2 - clip(tileY * TilePixels, 0, mapsize(level) - 1)
    IN  [latitude |-> y, longitude |-> x, quadkey |-> tileXY_to_quadkey(tileX, tileY, level)]

\* the points asked for: PointsPerTile positions in every tile, the
\* longitude 180 and the latitudes 85.05112878 and -85.05112878
QuadPoints(level) ==
    LET steps == {k * (TilePixels \div PointsPerTile) : k \in 0..(np_power(2, level) * PointsPerTile)}
    IN  {[latitude |-> lat, longitude |-> lon] :
            lat \in {mapsize(level) \div 2 - p : p \in steps}
                    \cup {ClipLatitude(level), -ClipLatitude(level)},
            lon \in {p - HalfTurn(level) : p \in steps}}

QuadInit ==
    /\ quad_level \in 1..MaxLevel
    /\ quad_poi \in QuadPoints(quad_level)
    /\ quad_tile = None
    /\ quad_out = <<>>

\* extract_quad_keys of the point asked for
ExtractQuadKeys ==
    /\ Len(quad_out) = 0
    /\ quad_tile' = Some(tile_of(quad_poi, quad_level))
    /\ quad_out' = <<extract_quad_keys(quad_poi, quad_level)>>
    /\ UNCHANGED <<quad_level, quad_poi>>

\* extract_quad_keys of the coordinates the first call returned
ExtractAgain ==
    /\ Len(quad_out) = 1
    /\ LET poi == [latitude |-> quad_out[1].latitude, longitude |-> quad_out[1].longitude]
       IN  /\ quad_tile' = Some(tile_of(poi, quad_level))
           /\ quad_out' = Append(quad_out, extract_quad_keys(poi, quad_level))
    /\ UNCHANGED <<quad_level, quad_poi>>

----------------------------------------------------------------------------
(* disasters/generic/uniform_disaster_dist.py : UniformDisasterFun          *)
(* The epicentre and the query points lie on the equator, on the grid of    *)
(* the network build.                                                       *)

MaxQueryPoints == 2

\* geometric.haversine as a call: with radians = False (the default) line 66
\* calls the parameter, which hides math.radians, and the call raises
\* TypeError ('bool' object is not callable); with True it returns metres
haversine_call(lon1, lon2, radians) ==
    IF ~radians THEN [raised |-> TRUE, value |-> 0]
    ELSE [raised |-> FALSE, value |-> haversine(lon1, lon2)]

\* UniformDisasterFun.__density: line 84 passes four arguments
density(mean, radius_km, amplitude, poi) ==
    LET distance == haversine_call(mean, poi, FALSE)
    IN  IF distance.raised THEN [raised |-> TRUE, value |-> 0]
        ELSE [raised |-> FALSE,
              value |-> IF distance.value < radius_km THEN amplitude ELSE 0]

UniInit ==
    /\ uni_mean \in 0..MaxLon
    /\ uni_radius_km \in {1, 5, 6}
    /\ uni_amplitude \in {1, 2}
    /\ uni_pois \in UNION {[1..n -> 0..MaxLon] : n \in 1..MaxQueryPoints}
    /\ uni_out = None
    /\ uni_pc = "new"

\* UniformDisasterFun.intensity(pois): one call of __density with the
\* transposed array of the points
Intensity ==
    /\ uni_pc = "new"
    /\ LET calls == [i \in 1..Len(uni_pois) |->
                        density(uni_mean, uni_radius_km, uni_amplitude, uni_pois[i])]
       IN  IF \E i \in 1..Len(uni_pois) : calls[i].raised
           THEN /\ uni_pc' = "TypeError"
                /\ uni_out' = None
           ELSE /\ uni_pc' = "returned"
                /\ uni_out' = Some([i \in 1..Len(uni_pois) |-> calls[i].value])
    /\ UNCHANGED <<uni_mean, uni_radius_km, uni_amplitude, uni_pois>>

----------------------------------------------------------------------------
(* utils/geometric.py : extract_samples_from_geo_frame                      *)
(* The polygons of the nodes do not overlap.  A sample row is (id, point);  *)
(* sample_points[id][point] is the number of rows equal to (id, point).     *)

NumGeoNodes == 2
MaxQuota == 1
MaxRounds == 3

GeoNodes == 1..NumGeoNodes

\* the rounded coordinates a candidate can have
Points == {"a", "b"}

\* the number of rows of a node: rows[p] rows have the point p
RECURSIVE PoolSize(_, _)
PoolSize(rows, S) ==
    IF S = {} THEN 0
    ELSE LET p == CHOOSE x \in S : TRUE
         IN  rows[p] + PoolSize(rows, S \ {p})

\* sample_points[con.ID].value_counts(), 0 for an id without rows (fillna)
value_counts(sample_points, id) == PoolSize(sample_points[id], Points)

\* progress[PER] < 1, with PER = count / amount: 0 / 0 is NaN and x / 0 is inf
below_quota_early(count, amount) == amount > 0 /\ count + 1 < amount

below_quota(count, amount) == amount > 0 /\ count < amount

\* progress[PER] <= 1
under(count, amount) == amount > 0 /\ count <= amount

\* progress[PER] > 1
over(count, amount) == count > amount

\* line 134
next_sample_size(sample_size, sample_step) ==
    RoundHalfEven(sample_size * (10 + sample_step), 10)

\* the tables of k rows of one node
RowsOfSize(k) == {f \in [Points -> 0..k] : PoolSize(f, Points) = k}

\* lines 138-176: of the candidates drawn around the nodes of progress, the
\* number that falls in the polygon of each node.  More than MaxQuota + 1 new
\* rows of a node are left out: they put the node over its quota, with any
\* points, as MaxQuota + 1 rows do.
final_sample_points(candidates) ==
    LET most == IF candidates < MaxQuota + 1 THEN candidates ELSE MaxQuota + 1
        RECURSIVE Total(_, _)
        Total(k, n) == IF n = 0 THEN 0 ELSE k[n] + Total(k, n - 1)
    IN  {k \in [GeoNodes -> 0..most] : Total(k, NumGeoNodes) <= candidates}

\* lines 187-194 for one node: its rows are kept when it is at or under its
\* quota, over its quota it keeps int(round(amount)) rows drawn with replacement
cleaned(rows, amount) ==
    LET count == PoolSize(rows, Points)
    IN  IF under(count, amount) THEN {rows}
        ELSE IF over(count, amount)
        THEN {g \in RowsOfSize(amount) : \A p \in Points : g[p] > 0 => rows[p] > 0}
        ELSE {[p \in Points |-> 0]}

\* what a pass leaves of one node that had the rows old and received k rows:
\* its rows, and whether it stays in progress (line 198)
pass_of_node(old, k, amount) ==
    UNION { LET joined == [p \in Points |-> old[p] + new[p]]
            IN  {<<g, below_quota(PoolSize(joined, Points), amount)>> :
                    g \in cleaned(joined, amount)}
            : new \in RowsOfSize(k) }

\* what a pass over all the nodes can leave, for every way the candidates fall
passes(sample_points, amount, candidates) ==
    UNION { Draws([n \in GeoNodes |-> pass_of_node(sample_points[n], final[n], amount[n])])
            : final \in final_sample_points(candidates) }

\* lines 96-122
GeoInit ==
    /\ geo_amount \in [GeoNodes -> 0..MaxQuota]
    /\ geo_sample_step \in {0, 5}
    /\ geo_counts_named \in BOOLEAN
    /\ geo_sample_size \in {1, 2}
    /\ geo_sample_points = [n \in GeoNodes |-> [p \in Points |-> 0]]
    /\ geo_progress = {n \in GeoNodes : below_quota(0, geo_amount[n])}
    /\ geo_rounds = 0
    /\ geo_pc = "sampling"

\* one pass of the while loop, lines 125-198
SampleRound ==
    /\ geo_pc = "sampling"
    /\ geo_progress # {}
    /\ geo_counts_named
    /\ geo_rounds < MaxRounds
    /\ geo_sample_size' = next_sample_size(geo_sample_size, geo_sample_step)
    /\ \E pass \in passes(geo_sample_points, geo_amount,
                            Cardinality(geo_progress) * geo_sample_size') :
           /\ geo_sample_points' = [n \in GeoNodes |-> pass[n][1]]
           /\ geo_progress' = {n \in GeoNodes : pass[n][2]}
    /\ geo_rounds' = geo_rounds + 1
    /\ UNCHANGED <<geo_amount, geo_sample_step, geo_counts_named, geo_pc>>

\* before pandas 2.0 the frame of line 182 has the columns "index" and id and
\* no column "count": the merge of line 183 raises in the first pass
SampleRoundRaises ==
    /\ geo_pc = "sampling"
    /\ geo_progress # {}
    /\ ~geo_counts_named
    /\ geo_pc' = "raised"
    /\ UNCHANGED <<geo_amount, geo_sample_step, geo_counts_named, geo_sample_size,
                   geo_sample_points, geo_progress, geo_rounds>>

\* lines 201-206
SampleReturn ==
    /\ geo_pc = "sampling"
    /\ geo_progress = {}
    /\ geo_pc' = "returned"
    /\ UNCHANGED <<geo_amount, geo_sample_step, geo_counts_named, geo_sample_size,
                   geo_sample_points, geo_progress, geo_rounds>>

----------------------------------------------------------------------------
(* simulations/specific/PanamaDrill.py : extract_destination_node, called   *)
(* for one node with any forces.  The nodes are 1..n, the node of the call  *)
(* is node 1 and all of them are adjacent to it.                            *)

MaxAdjacent == 6
MaxDrawn == 1

\* the final forces a node can have: NaN or a number
ForceValues == {[final_force |-> 0, nan |-> TRUE]}
                   \cup {[final_force |-> f, nan |-> FALSE] : f \in -1..1}

\* line 240 without disaster: the probability of v among the kept nodes T, as
\* numerator and denominator
probability(v, T, frc) == <<frc[v].final_force, SumForces(frc, T)>>

ChoiceInit ==
    /\ choice_node = 1
    /\ \E n \in 1..MaxAdjacent :
          /\ choice_adjacent = 1..n
          /\ choice_forces \in [1..n -> ForceValues]
    /\ choice_on \in BOOLEAN
    /\ choice_devices \in 1..MaxDrawn
    /\ choice_kept = None
    /\ choice_out = None
    /\ choice_pc = "new"

\* lines 226-246
ExtractDestinationNode ==
    /\ choice_pc = "new"
    /\ \E T \in top_forces(choice_adjacent, choice_forces) :
          /\ ~choice_raises(T, choice_forces, choice_on)
          /\ \E new_positions \in Draws([i \in 1..choice_devices |->
                                           destinations(T, choice_forces, choice_on)]) :
                 choice_out' = Some([i \in 1..choice_devices |->
                                        <<choice_node, new_positions[i]>>])
          /\ choice_kept' = Some(T)
    /\ choice_pc' = "returned"
    /\ UNCHANGED <<choice_node, choice_adjacent, choice_forces, choice_on, choice_devices>>

\* lines 240-244: np.random.choice rejects the probabilities
ExtractDestinationNodeRaises ==
    /\ choice_pc = "new"
    /\ \E T \in top_forces(choice_adjacent, choice_forces) :
          /\ choice_raises(T, choice_forces, choice_on)
          /\ choice_kept' = Some(T)
    /\ choice_pc' = "ValueError"
    /\ UNCHANGED <<choice_node, choice_adjacent, choice_forces, choice_on, choice_devices,
                   choice_out>>

----------------------------------------------------------------------------
(* simulations/specific/PanamaDrill.py : lines 71-93, the adjacency loop,   *)
(* over the edge frame as the edges property returns it.  The frame read   *)
(* from the cache is indexed by (node_id1, node_id2)                        *)
(* (get_edges_from_cache); the frame build() leaves in memory keeps the     *)
(* flat index of its last merge, and a row key of two parts is too many     *)
(* indexers for it: IndexingError, which is no KeyError.                    *)

\* the ordered pairs of different nodes
NodePairs == { e \in Nodes \X Nodes : e[1] # e[2] }

\* the edge frames: any rows from the cache file; from build() the rows that
\* line 366 keeps (node_id1 > node_id2)
AdjacencyInit ==
    /\ adj_index \in {"MultiIndex", "RangeIndex"}
    /\ adj_edges \in SUBSET NodePairs
    /\ adj_index = "RangeIndex" => \A e \in adj_edges : e[1] > e[2]
    /\ adj_built = [v \in Nodes |-> None]
    /\ adj_pc = "loop"

\* the node of the next iteration
next_node(built) == CHOOSE v \in Nodes :
                        built[v] = None /\ \A u \in Nodes : u < v => built[u] # None

\* lines 74-91, one iteration over an indexed frame
ExtractNeighbors ==
    /\ adj_pc = "loop"
    /\ adj_index = "MultiIndex"
    /\ LET v == next_node(adj_built)
       IN  /\ adj_built' = [adj_built EXCEPT ![v] = Some(extract_neighbors(adj_edges)[v])]
           /\ adj_pc' = IF v = NumNodes THEN "done" ELSE "loop"
    /\ UNCHANGED <<adj_index, adj_edges>>

\* line 81 over the frame of build(): the first lookup raises
ExtractNeighborsRaises ==
    /\ adj_pc = "loop"
    /\ adj_index = "RangeIndex"
    /\ adj_pc' = "IndexingError"
    /\ UNCHANGED <<adj_index, adj_edges, adj_built>>

----------------------------------------------------------------------------
(* population_network_from_hdx_no_geometry.py : initial_sample.  Lengths    *)
(* are in units of 1 / NoiseSteps of a ten-thousandth of a degree.          *)

CITY_NOISE == 45        \* constants.py: 0.0045 degrees, in ten-thousandths
NoiseSteps == 2         \* np.random.uniform(-1, 1) takes the values k / NoiseSteps
MaxIds == 2

\* the values of np.random.uniform(-1, 1): the interval is half open
NoiseValues == (-NoiseSteps)..(NoiseSteps - 1)

\* lines 226-230: the noise added to the longitude and to the latitude of one
\* device, both read from the same entry of the one vector drawn at line 226
uniform_noise == { <<x, x>> : x \in NoiseValues }

\* the centres of the nodes, apart by more than the noise
center_lon(v) == 10 * v * CITY_NOISE * NoiseSteps
center_lat(v) == (0 - 20) * v * CITY_NOISE * NoiseSteps

\* lines 222-223: the nodes np.random.choice can return with p = population / sum
choice_by_population(pop) == { v \in Nodes : pop[v] > 0 }

InitialSampleInit ==
    /\ is_population \in Populations
    /\ is_ids \in 1..MaxIds
    /\ is_positions = None
    /\ is_pc = "new"

\* lines 216-232
InitialSample ==
    /\ is_pc = "new"
    /\ SumPopulation(is_population, Nodes) > 0
    /\ \E at \in Draws([i \in 1..is_ids |-> choice_by_population(is_population)]) :
       \E noise \in Draws([i \in 1..is_ids |-> uniform_noise]) :
          is_positions' = Some([i \in 1..is_ids |->
                              [id |-> i - 1,
                               node_id |-> at[i],
                               lon |-> center_lon(at[i]) + noise[i][1] * CITY_NOISE,
                               lat |-> center_lat(at[i]) + noise[i][2] * CITY_NOISE]])
    /\ is_pc' = "returned"
    /\ UNCHANGED <<is_population, is_ids>>

\* lines 222-223: the probabilities are 0 / 0 when nobody lives anywhere
InitialSampleRaises ==
    /\ is_pc = "new"
    /\ SumPopulation(is_population, Nodes) = 0
    /\ is_pc' = "ValueError"
    /\ UNCHANGED <<is_population, is_ids, is_positions>>

----------------------------------------------------------------------------
(* data_processors/generic/FB_population_density.py : load_data, lines      *)
(* 178-223, for the pings of one day; FB_mobility.py has the same lines     *)
(* (229-232).  sort_values orders the rows by interval only, with a sort    *)
(* that is not stable, so the row that drop_duplicates(keep = "last") keeps *)
(* for a device and an interval is any one of that device's rows of the     *)
(* interval (the last one read when the sort keeps the order).              *)

MaxLoadedPings == 3
NumPingDevices == 2

PingDevices == 1..NumPingDevices
PingHours == {7, 8, 16}
PingLocations == {"A", "B"}
PingRows == [id : PingDevices, hour : PingHours, location : PingLocations]

\* utils/facebook.py lines 119-142
to_fb_date(hour) ==
    IF hour >= 16 /\ hour < 24 THEN 16
    ELSE IF hour >= 0 /\ hour < 8 THEN 0
    ELSE IF hour >= 8 /\ hour < 16 THEN 8
    ELSE 0

\* the rows of a device in an interval, by position in df_raw
rows_of(raw, id, date_time) ==
    { i \in 1..Len(raw) : raw[i].id = id /\ to_fb_date(raw[i].hour) = date_time }

\* the (id, interval) pairs of df_raw
duplicate_keys(raw) == { <<raw[i].id, to_fb_date(raw[i].hour)>> : i \in 1..Len(raw) }

\* lines 216-218: the frames sort_values and drop_duplicates can leave
drop_duplicates(raw) ==
    { [k \in duplicate_keys(raw) |-> raw[pick[k]].location] :
          pick \in { f \in [duplicate_keys(raw) -> 1..Len(raw)] :
                        \A k \in duplicate_keys(raw) : f[k] \in rows_of(raw, k[1], k[2]) } }

\* lines 221-223: groupby(latitude, longitude, datetime, ...)["count"].sum()
count_groups(kept) ==
    [g \in { <<kept[k], k[2]>> : k \in DOMAIN kept } |->
        Cardinality({ k \in DOMAIN kept : kept[k] = g[1] /\ k[2] = g[2] })]

LoadDataInit ==
    /\ ld_raw \in UNION { [1..n -> PingRows] : n \in 1..MaxLoadedPings }
    /\ ld_kept = <<>>
    /\ ld_count = <<>>
    /\ ld_pc = "new"

\* lines 178-223
LoadData ==
    /\ ld_pc = "new"
    /\ \E kept \in drop_duplicates(ld_raw) :
          /\ ld_kept' = kept
          /\ ld_count' = count_groups(kept)
    /\ ld_pc' = "loaded"
    /\ UNCHANGED ld_raw

----------------------------------------------------------------------------
(* data_processors/generic/FB_population_density.py : __init__.  A list is  *)
(* an object: the default value of baseline_cols is made once, when the     *)
(* function is defined, and every call that leaves the argument out gets    *)
(* that same object.                                                        *)

MaxInstances == 3

\* the default of line 24
DefaultBaselineCols == <<"hour", "day_of_week">>

\* lines 46-54
geo_col_name(agg_geometry) ==
    IF agg_geometry = "admin" THEN "GID_2"
    ELSE IF agg_geometry = "tile" THEN "quadkey"
    ELSE "not_defined"

ConstructInit ==
    /\ fb_lists = [r \in {0} |-> DefaultBaselineCols]
    /\ fb_instances = <<>>
    /\ fb_errors = 0

\* lines 22-56: FBPopulationDensity(..., agg_geometry, ..., geo_file[, baseline_cols]);
\* passed = FALSE leaves baseline_cols out, passed = TRUE hands over a new
\* list [hour]
Construct ==
    /\ Len(fb_instances) + fb_errors < MaxInstances
    /\ \E agg_geometry \in {"tile", "admin"}, geo_file \in {"", "admin.geojson"},
          passed \in BOOLEAN :
          /\ ~(agg_geometry = "admin" /\ geo_file = "")
          /\ LET ref == IF passed THEN Len(fb_instances) + fb_errors + 1 ELSE 0
                 before == IF passed THEN <<"hour">> ELSE fb_lists[0]
             IN  /\ fb_lists' = [r \in DOMAIN fb_lists \cup {ref} |->
                                    IF r = ref THEN Append(before, geo_col_name(agg_geometry))
                                    ELSE fb_lists[r]]
                 /\ fb_instances' = Append(fb_instances,
                                        [geo_col_name |-> geo_col_name(agg_geometry),
                                         baseline_cols |-> ref,
                                         geo_file |-> geo_file])
    /\ UNCHANGED fb_errors

\* line 49: assert self.__geo_file fails for 'admin' without a file, before
\* the list is touched
ConstructRaises ==
    /\ Len(fb_instances) + fb_errors < MaxInstances
    /\ \E agg_geometry \in {"tile", "admin"}, geo_file \in {"", "admin.geojson"} :
          agg_geometry = "admin" /\ geo_file = ""
    /\ fb_errors' = fb_errors + 1
    /\ UNCHANGED <<fb_lists, fb_instances>>

----------------------------------------------------------------------------
(* data_processors/generic/FB_population_density.py : set_baseline,         *)
(* set_crisis, baseline(), crisis(), build_dataset and load_data of one     *)
(* instance.  A table is known by where it came from: the empty frame of    *)
(* the constructor, a frame installed by the caller, or one that load_data  *)
(* built from the ping data.                                                *)

MaxDatasetCalls == 3

\* the tables and flags of the instance
Tables == [baseline |-> pd_baseline, crisis |-> pd_crisis,
           baseline_loaded |-> pd_baseline_loaded, crisis_loaded |-> pd_crisis_loaded]

\* lines 154-262: load_data.  It returns at line 196 when the geometry file
\* cannot be read; it replaces __baseline only when there are rows before the
\* crisis (line 244) and __crisis in both branches (255, 258)
load_data(t) ==
    IF ~pd_geo_readable THEN t
    ELSE [baseline |-> IF pd_rows_before THEN "loaded" ELSE t.baseline,
          crisis |-> IF pd_rows_after THEN "loaded" ELSE "empty",
          baseline_loaded |-> TRUE,
          crisis_loaded |-> TRUE]

\* lines 70-74 and 76-80: the getters
baseline_getter(t) == IF ~t.baseline_loaded THEN load_data(t) ELSE t
crisis_getter(t) == IF ~t.crisis_loaded THEN load_data(t) ELSE t

\* lines 121-123 of build_dataset
build_dataset_load(t) == IF ~t.crisis_loaded \/ ~t.baseline_loaded THEN load_data(t) ELSE t

SetTables(t) ==
    /\ pd_baseline' = t.baseline
    /\ pd_crisis' = t.crisis
    /\ pd_baseline_loaded' = t.baseline_loaded
    /\ pd_crisis_loaded' = t.crisis_loaded

DatasetInit ==
    /\ pd_rows_before \in BOOLEAN
    /\ pd_rows_after \in BOOLEAN
    /\ pd_geo_readable \in BOOLEAN
    /\ pd_baseline = "empty"
    /\ pd_crisis = "empty"
    /\ pd_baseline_loaded = FALSE
    /\ pd_crisis_loaded = FALSE
    /\ pd_data = None
    /\ pd_calls = 0

\* lines 92-94
SetBaseline ==
    /\ pd_calls < MaxDatasetCalls
    /\ SetTables([Tables EXCEPT !.baseline = "installed", !.baseline_loaded = TRUE])
    /\ pd_calls' = pd_calls + 1
    /\ UNCHANGED <<pd_rows_before, pd_rows_after, pd_geo_readable, pd_data>>

\* lines 96-98
SetCrisis ==
    /\ pd_calls < MaxDatasetCalls
    /\ SetTables([Tables EXCEPT !.crisis = "installed", !.crisis_loaded = TRUE])
    /\ pd_calls' = pd_calls + 1
    /\ UNCHANGED <<pd_rows_before, pd_rows_after, pd_geo_readable, pd_data>>

\* lines 70-74
Baseline ==
    /\ pd_calls < MaxDatasetCalls
    /\ SetTables(baseline_getter(Tables))
    /\ pd_calls' = pd_calls + 1
    /\ UNCHANGED <<pd_rows_before, pd_rows_after, pd_geo_readable, pd_data>>

\* lines 76-80
Crisis ==
    /\ pd_calls < MaxDatasetCalls
    /\ SetTables(crisis_getter(Tables))
    /\ pd_calls' = pd_calls + 1
    /\ UNCHANGED <<pd_rows_before, pd_rows_after, pd_geo_readable, pd_data>>

\* lines 100-151: build_dataset returns without data when a table is empty,
\* and merges self.baseline() with self.crisis() otherwise
BuildDataset ==
    /\ pd_calls < MaxDatasetCalls
    /\ LET t == build_dataset_load(Tables)
       IN  IF t.crisis = "empty" \/ t.baseline = "empty"
           THEN SetTables(t) /\ UNCHANGED pd_data
           ELSE LET u == crisis_getter(baseline_getter(t))
                IN  /\ SetTables(u)
                    /\ pd_data' = Some([baseline |-> baseline_getter(t).baseline,
                                        crisis |-> u.crisis])
    /\ pd_calls' = pd_calls + 1
    /\ UNCHANGED <<pd_rows_before, pd_rows_after, pd_geo_readable>>

----------------------------------------------------------------------------
(* Properties of the timeline lookup (SpecSearch)                           *)

\* the Python index of the last entry of arr that is <= val, -1 if there is none
GreatestIndexLeq(val, arr) ==
    IF \E i \in 1..Len(arr) : arr[i] <= val
    THEN (CHOOSE i \in 1..Len(arr) :
            /\ arr[i] <= val
            /\ \A j \in 1..Len(arr) : arr[j] <= val => j <= i) - 1
    ELSE -1

\* C3: for every ascending array and search value binary_search returns the
\* largest index i with array[i] <= value, and -1 for an empty array or a value
\* below array[0]; the lookup then returns that entry's field, or None exactly
\* when the index is -1, and the tick reports 'Disaster has not started'
\* exactly when the lookup returned None.
C3_GreatestEntryNotAfter ==
    /\ search_pc \in {"searched", "looked_up"} =>
          /\ closest_index = GreatestIndexLeq(search_val, array)
          /\ (closest_index = -1) <=> (Len(array) = 0 \/ search_val < array[1])
    /\ search_pc = "looked_up" =>
          /\ (fun = None) <=> (closest_index = -1)
          /\ fun # None => Val(fun) = closest_index
          /\ (tick_msg = "Disaster has not started") <=> (fun = None)

\* a lookup that lands strictly inside a list with a repeated timestamp
C3_Witness ==
    /\ search_pc = "looked_up"
    /\ Len(array) >= 3
    /\ closest_index >= 1 /\ closest_index < Len(array) - 1
    /\ array[closest_index] = array[closest_index + 1]
    /\ fun = Some(closest_index)

\* a lookup before the first timestamp
C3_WitnessNone ==
    /\ search_pc = "looked_up" /\ Len(array) >= 1 /\ search_val < array[1]
    /\ fun = None /\ tick_msg = "Disaster has not started"

----------------------------------------------------------------------------
(* Properties of Earthquake.generate_disaster (SpecQuake)                   *)

Generated == eq_pc = "generated"
TimelineSet == disaster_timeline # None /\ disaster_functions # None
\* the date the step count is measured to
StepsEnd == IF eq_continuity # None THEN Val(eq_continuity) ELSE eq_end_date

\* C4: after generate_disaster ran with no user-supplied lists the two lists
\* are set, have the same length >= 1, start at start_date and advance by
\* exactly one step unit from entry to entry.
C4_TimelineAlwaysSet ==
    Generated =>
        /\ TimelineSet
        /\ Len(Val(disaster_timeline)) = Len(Val(disaster_functions))
        /\ Len(Val(disaster_timeline)) >= 1
        /\ Val(disaster_timeline)[1] = eq_start_date
        /\ \A i \in 1..(Len(Val(disaster_timeline)) - 1) :
              Val(disaster_timeline)[i + 1] = Val(disaster_timeline)[i] + time_step(eq_step_unit)

C6_ExponentialDecay ==
    (Generated /\ TimelineSet /\ eq_method = "exponential") =>
        \A i \in 2..Len(Val(disaster_functions)) :
            Val(disaster_functions)[i].type = "normal" =>
                AmpEq(Val(disaster_functions)[i].amplitude, Amp(eq_A0, 1, i - 2))

\* the number of steps of a generated timeline
TotalSteps == Len(Val(disaster_timeline)) - 1

\* C7 as stated: entry k (k = 0 the entry at start_date) has amplitude
\* A0 * (1 - k/K) under 'linear' and A0 * (1 - (k/K)^2) under 'parabolic'.
C7_AmplitudeByEntry ==
    (Generated /\ TimelineSet) =>
        \A i \in 1..Len(Val(disaster_functions)) :
            LET k == i - 1
                K == TotalSteps
                f == Val(disaster_functions)[i]
            IN  f.type = "normal" =>
                  /\ eq_method = "linear" => AmpEq(f.amplitude, Amp(eq_A0 * (K - k), K, 0))
                  /\ eq_method = "parabolic" =>
                        AmpEq(f.amplitude, Amp(eq_A0 * (K * K - k * k), K * K, 0))

\* C7 amended: the entry at start_date has amplitude A0, and every later
\* Gaussian entry k >= 1 (timestamp start + k*dt) has the amplitude of step
\* k - 1: A0 * (1 - (k-1)/K) under 'linear' and A0 * (1 - ((k-1)/K)^2) under
\* 'parabolic', K the total number of steps; so entries 0 and 1 both have A0.
C7_AmplitudeByPreviousStep ==
    (Generated /\ TimelineSet) =>
        /\ Val(disaster_functions)[1] = NormalDisasterFun(Amp(eq_A0, 1, 0))
        /\ \A i \in 2..Len(Val(disaster_functions)) :
            LET k == i - 1
                K == TotalSteps
                f == Val(disaster_functions)[i]
            IN  /\ Val(disaster_timeline)[i] = eq_start_date + k * time_step(eq_step_unit)
                /\ f.type = "normal" =>
                     /\ eq_method = "linear" =>
                           AmpEq(f.amplitude, Amp(eq_A0 * (K - (k - 1)), K, 0))
                     /\ eq_method = "parabolic" =>
                           AmpEq(f.amplitude,
                                 Amp(eq_A0 * (K * K - (k - 1) * (k - 1)), K * K, 0))

\* a parabolic timeline of three steps, all entries Gaussian, A0 not 0
C7_Witness ==
    /\ Generated /\ TimelineSet /\ eq_method = "parabolic" /\ eq_A0 # 0
    /\ TotalSteps = 3
    /\ \A i \in 1..4 : Val(disaster_functions)[i].type = "normal"
    /\ AmpEq(Val(disaster_functions)[4].amplitude, Amp(eq_A0 * 5, 9, 0))

\* C22: with continuity set, an entry of the generated timeline carries the
\* continuity field exactly when its timestamp is after end_date; the entry at
\* start_date and every entry at or before end_date carry a Gaussian field
\* centred on the epicentre.
C22_ContinuityAfterEnd ==
    (Generated /\ TimelineSet /\ eq_continuity # None) =>
        /\ Val(disaster_timeline)[1] = eq_start_date
        /\ Val(disaster_functions)[1].type = "normal"
        /\ Val(disaster_functions)[1].mean = "epicenter"
        /\ \A i \in 2..Len(Val(disaster_timeline)) :
              /\ Val(disaster_functions)[i] = continuity_fun
                     <=> Val(disaster_timeline)[i] > eq_end_date
              /\ Val(disaster_timeline)[i] <= eq_end_date =>
                     /\ Val(disaster_functions)[i].type = "normal"
                     /\ Val(disaster_functions)[i].mean = "epicenter"

\* a timeline with an entry exactly at end_date and entries after it
C22_Witness ==
    /\ Generated /\ TimelineSet /\ eq_continuity # None
    /\ eq_start_date < eq_end_date
    /\ \E i, j \in 2..Len(Val(disaster_timeline)) :
          /\ Val(disaster_timeline)[i] = eq_end_date
          /\ Val(disaster_functions)[i].type = "normal"
          /\ j = i + 1
          /\ Val(disaster_functions)[j] = continuity_fun

----------------------------------------------------------------------------
(* Properties of the network build (SpecBuild)                              *)

Built == build_pc = "built"
NodeOf(id) == CHOOSE i \in 1..Len(Val(nodes)) : Val(nodes)[i].id = id
EdgeLength(e) == haversine(Val(nodes)[NodeOf(e.node_id1)].lon, Val(nodes)[NodeOf(e.node_id2)].lon)

\* what C8 says of every edge but the order of its two ids
EdgesSimpleAndShort ==
    /\ \A k \in 1..Len(Val(edges)) :
          /\ Val(edges)[k].node_id1 # Val(edges)[k].node_id2
          /\ EdgeLength(Val(edges)[k]) <= MAX_DISTANCE_BETWEEN_ADJACENT_CITIES_KM * 1000
    /\ \A k \in 1..Len(Val(edges)), l \in 1..Len(Val(edges)) :
          k # l => {Val(edges)[k].node_id1, Val(edges)[k].node_id2}
                      # {Val(edges)[l].node_id1, Val(edges)[l].node_id2}

C9_PopulationAtLeastMin ==
    Built => \A i \in 1..Len(Val(nodes)) : Val(nodes)[i].population >= MIN_POPULATION

\* the places and raster rows the build works on
RetainedPlacesNow == retained_places(populated_places, min_lon, max_lon)
RetainedCellsNow == retained_density(world_pop_density, min_lon, max_lon)

\* the raster rows whose nearest retained place is the one at position i
\* (the first of the nearest ones in table order)
CellsNearest(i) ==
    { c \in 1..Len(RetainedCellsNow) :
        /\ \A j \in 1..Len(RetainedPlacesNow) :
              haversine(RetainedPlacesNow[i].lon, RetainedCellsNow[c].X)
                  <= haversine(RetainedPlacesNow[j].lon, RetainedCellsNow[c].X)
        /\ \A j \in 1..(i - 1) :
              haversine(RetainedPlacesNow[j].lon, RetainedCellsNow[c].X)
                  > haversine(RetainedPlacesNow[i].lon, RetainedCellsNow[c].X) }

RECURSIVE SumOver(_)
SumOver(S) ==
    IF S = {} THEN 0
    ELSE LET c == CHOOSE x \in S : TRUE
         IN  RetainedCellsNow[c].Z + SumOver(S \ {c})

\* C10: every node with raster cells nearest to it has population
\* round(sum of the Z of those cells), and a node with none has
\* MIN_POPULATION, so that each cell counts for exactly one node, the nearest.
C10_CellsCountForNearestPlace ==
    Built =>
        \A i \in 1..Len(Val(nodes)) :
            Val(nodes)[i].population =
                IF CellsNearest(i) # {}
                THEN RoundHalfEven(SumOver(CellsNearest(i)), 2)
                ELSE MIN_POPULATION

----------------------------------------------------------------------------
(* Properties of the simulation loop (SpecSim, SpecClock)                   *)

\* the ids 0..N-1, once each
DeviceIds == [i \in 1..total_elements |-> i - 1]

\* C1: every frame that a tick exported, and the device frame kept for the
\* next tick, has exactly one row for each device id 0..N-1, whatever the mix
\* of devices at rest and in transit: none is lost, duplicated or added
C1_OneRowPerDevice ==
    sim_pc \in {"loop", "done", "ValueError", "OSError", "ValueError: probabilities"} /\ total_elements > 0 =>
        /\ Ids(device_positions) = DeviceIds
        /\ \A f \in DOMAIN results_folder : Ids(results_folder[f]) = DeviceIds

\* a tick that found devices at rest and devices in transit has exported
C1_Witness ==
    /\ sim_pc \in {"loop", "done"}
    /\ ticks_started >= 2 /\ Len(export_log) = ticks_started
    /\ node_trajectories # {} /\ edge_trajectories # {}
    /\ strftime(current_date - timedelta(frequency)) \in DOMAIN results_folder
    /\ Len(results_folder[strftime(current_date - timedelta(frequency))]) >= 2

\* C2 as stated: the k-th pass handles t = start_date + k * frequency; every
\* pass writes one file, named by the date string that is also its date
\* column; the names ascend, so that no two passes write the same file; the
\* date moves forward with every pass and, when simulate has ended, every t
\* up to end_date has its file
C2_OneFilePerTick ==
    sim_pc \in {"loop", "done", "ValueError", "OSError", "ValueError: probabilities"} /\ ticks_started > 0 =>
        /\ Len(export_log) = ticks_started
        /\ \A k \in 1..Len(export_log) :
              export_log[k] = strftime(sim_start_date + (k - 1) * timedelta(frequency))
        /\ \A j, k \in 1..Len(export_log) : j < k => export_log[j] < export_log[k]
        /\ \A f \in DOMAIN results_folder :
              \A i \in 1..Len(results_folder[f]) : results_folder[f][i].date = f
        /\ sim_pc = "loop" => current_date > sim_start_date
        /\ sim_pc # "loop" =>
              \A k \in 0..MaxTicks :
                 sim_start_date + k * timedelta(frequency) <= sim_end_date
                    => k + 1 <= Len(export_log)

\* the largest population: the forces of the model are numerators over it
LargestPopulation == MaxOf({population[v] : v \in Nodes})

\* C21: the force update of every tick leaves attract[v] = population(v) / max
\* population, so that the largest attractive force is 1, and final[v] =
\* attract[v] - repel[v] with repel[v] the intensity, at v, of the field of the
\* tick; without a field for the tick final[v] = attract[v].
C21_ForcesOfTheTick ==
    [][ticks_started' # ticks_started =>
          /\ \A v \in Nodes : forces'[v].attractive_force = population[v]
          /\ MaxOf({forces'[v].attractive_force : v \in Nodes}) = LargestPopulation
          /\ TickField = None =>
                 \A v \in Nodes : /\ forces'[v].final_force = forces'[v].attractive_force
                                  /\ ~forces'[v].nan
          /\ TickField # None =>
                 \A v \in Nodes :
                     IF Val(TickField)[v] = NaN THEN forces'[v].nan
                     ELSE /\ ~forces'[v].nan
                          /\ Val(forces'[v].repelling_force)
                                 = Val(TickField)[v][1] * LargestPopulation
                          /\ forces'[v].final_force
                                 = forces'[v].attractive_force - Val(forces'[v].repelling_force)]_vars

\* a tick with a field has left a town smaller than the largest, and a node
\* pushed below its attractive force
C21_Witness ==
    /\ ticks_started >= 2
    /\ \E v \in Nodes : /\ forces[v].attractive_force > 0
                        /\ forces[v].attractive_force < LargestPopulation
    /\ \E v \in Nodes : /\ forces[v].repelling_force # None
                        /\ ~forces[v].nan
                        /\ forces[v].final_force < forces[v].attractive_force

TickBegins == ticks_started' # ticks_started
TickCompletes == export_log' # export_log

\* C27: disaster_on is a latch: it is false at every tick before the first
\* tick for which the disaster returns a field, becomes true at that tick
\* before any transition is computed, and is never reset; the logistic mode
\* is used for the choice of the devices at rest and for the reach
\* probability on exactly the ticks at or after that one, the raw forces on
\* the earlier ticks.
C27_DisasterOnLatch ==
    [][/\ (sim_pc = "new" /\ sim_pc' = "loop") => ~disaster_on'
       /\ disaster_on => disaster_on'
       /\ TickBegins =>
             /\ disaster_on' = (disaster_on \/ TickField # None)
             \* raw forces: zero sums and mixed signs are rejected, a node of
             \* force 0 is never chosen, a device never arrives against the sign
             /\ (TickCompletes /\ ~disaster_on') =>
                   \A d \in Devices :
                       LET s == device_trajectories[d].start_node
                           e == device_trajectories[d].end_node
                           to == device_trajectories'[d]
                       IN  /\ d \in AtRest => forces'[to.end_node].final_force # 0
                           /\ (d \in InTransit /\ to.start_node = e) =>
                                 forces'[e].final_force
                                     * (forces'[e].final_force + forces'[s].final_force) >= 0
             \* logistic mode: only a NaN force is rejected
             /\ (sim_pc' = "ValueError: probabilities" /\ disaster_on') =>
                   \E v \in Nodes : forces'[v].nan]_vars

\* after a tick without field and a tick with one, a device is heading to a
\* node without population, whose force is 0 without disaster: only the
\* logistic mode chooses it
C27_Witness ==
    /\ disaster_on
    /\ ticks_started >= 2
    /\ Len(export_log) = ticks_started
    /\ \E d \in Devices :
          /\ forces[device_trajectories[d].end_node].attractive_force = 0
          /\ forces[device_trajectories[d].end_node].final_force = 0
          /\ device_trajectories[d].start_node # device_trajectories[d].end_node

----------------------------------------------------------------------------
(* Properties of build() and the cache (SpecCache)                          *)

Printed(stdout, what, a) == \E i \in 1..Len(stdout) : stdout[i] = <<what, a>>

\* C11: whenever build() runs, every artefact of the class is computed from
\* the raw inputs exactly when it was neither in memory nor in the cache; a
\* computed artefact is in the cache, as computed, when build returns; every
\* artefact is in memory afterwards; and a build() after the first computes
\* nothing
C11_CacheBeforeBuild ==
    [][ hdx_calls' # hdx_calls /\ BuildRan(hdx_stdout') =>
            \A i \in 1..Len(Artefacts(hdx_kind)) :
               LET a == Artefacts(hdx_kind)[i]
               IN  /\ Printed(hdx_stdout', "scratch", a)
                        <=> (hdx_memory[a] = None /\ hdx_cache[a] = None)
                   /\ Printed(hdx_stdout', "scratch", a)
                        => (hdx_cache'[a] = Some("new") /\ hdx_memory'[a] = Some("new"))
                   /\ hdx_memory'[a] # None
                   /\ (hdx_memory[a] = None /\ hdx_cache[a] # None) => hdx_memory'[a] = hdx_cache[a]
                   /\ hdx_builds >= 1 => ~Printed(hdx_stdout', "scratch", a) ]_vars

\* a second build() has run, after a first one that computed the edges and
\* read the nodes from the cache
C11_Witness ==
    /\ hdx_builds = 2
    /\ hdx_kind = "hdx"
    /\ hdx_memory["nodes"] = Some("old") /\ hdx_memory["edges"] = Some("new")
    /\ hdx_cache["edges"] = Some("new")
    /\ BuildRan(hdx_stdout)

\* C30: the cache entries are keyed by the network's id only: while the entry
\* of the nodes (of the edges) exists, the property returns exactly the cached
\* rows and never reads the raw inputs, whatever this network's bounding box,
\* input files and constants are, and an entry that exists is never
\* invalidated or rewritten.
C30_CacheEntriesStay ==
    [][\A a \in {"nodes", "edges"} :
          hdx_cache[a] # None =>
              /\ hdx_cache'[a] = hdx_cache[a]
              /\ hdx_memory'[a] # None => hdx_memory'[a] = hdx_cache[a]
              /\ hdx_calls' # hdx_calls => ~Printed(hdx_stdout', "scratch", a)]_vars

\* the nodes another network had left in the cache are the nodes of this one,
\* which has computed its edges beside them
C30_Witness ==
    /\ hdx_kind = "no_geometry"
    /\ hdx_calls >= 2
    /\ hdx_cache["nodes"] = Some("old") /\ hdx_memory["nodes"] = Some("old")
    /\ hdx_cache["edges"] = Some("new") /\ hdx_memory["edges"] = Some("new")

\* C12 as stated: an I/O error of a tick's export does not abort the run (it
\* is logged, and the loop goes on with the following ticks)
C12_ExportErrorDoesNotAbort ==
    sim_pc # "OSError"

\* C13 as stated: when the probabilities of the neighbours of a device at rest
\* cannot be normalised (a NaN force, or forces that sum to 0), a neutral value
\* is used and the tick completes: no pass ends with np.random.choice's error
C13_NormalisationFallsBack ==
    sim_pc # "ValueError: probabilities"

\* C19 as stated: in every pass that completes, every device that was in
\* transit at its beginning ends it with start = end, the common value being
\* its old end or its old start
C19_TransitResolves ==
    [][ export_log' # export_log =>
            \A d \in InTransit :
               /\ device_trajectories'[d].start_node = device_trajectories'[d].end_node
               /\ device_trajectories'[d].start_node \in
                      {device_trajectories[d].start_node, device_trajectories[d].end_node} ]_vars

----------------------------------------------------------------------------
(* Properties of load_ping_data (SpecPing)                                  *)

\* the files of the listing that can be read and have the required columns
ValidFiles == { i \in 1..Len(ping_dir) : ping_dir[i].kind = "ok" }

RECURSIVE RowsOfValid(_)
RowsOfValid(i) ==
    IF i > Len(ping_dir) THEN <<>>
    ELSE (IF i \in ValidFiles THEN [r \in 1..ping_dir[i].rows |-> <<i, r>>] ELSE <<>>)
         \o RowsOfValid(i + 1)

\* C14: after load_ping_data, every file that cannot be read or lacks a
\* required column has exactly one row of type 'error' in the error log and
\* no row in the frame, every valid file has all its rows in the frame
\* wherever it stands in the listing, and the call raises exactly when no row
\* was loaded
C14_FilesLoadedIndependently ==
    ping_pc # "new" =>
        /\ \A i \in 1..Len(ping_dir) :
              Cardinality({ k \in 1..Len(ping_errors) : ping_errors[k].file = i })
                  = (IF i \in ValidFiles THEN 0 ELSE 1)
        /\ \A k \in 1..Len(ping_errors) : ping_errors[k].type = "error"
        /\ ping_pc = "returned" => ping_df = Some(RowsOfValid(1))
        /\ ping_pc = "Exception" <=> RowsOfValid(1) = <<>>

\* a listing with a valid file after an unreadable one and before one that
\* lacks a column has been loaded
C14_Witness ==
    /\ ping_pc = "returned"
    /\ Len(ping_dir) = 3
    /\ ping_dir[1].kind = "bad_date" /\ ping_dir[2].kind = "ok" /\ ping_dir[3].kind = "no_lat"
    /\ Len(Val(ping_df)) = 2 /\ Len(ping_errors) = 2

----------------------------------------------------------------------------
(* Properties of the quadkeys (SpecQuad)                                    *)

\* bit i of n written on level bits, the most significant first
bit(n, i, level) == (n \div np_power(2, level - i)) % 2

InRange(tile, level) ==
    /\ tile[1] \in 0..(np_power(2, level) - 1)
    /\ tile[2] \in 0..(np_power(2, level) - 1)

\* C15: for tileX, tileY in [0, 2^L) the quadkey has exactly L characters, its
\* i-th character is the base-4 digit 2 * bit_i(tileY) + bit_i(tileX), no other
\* tile of the level has the same quadkey, and the quadkey starts with the
\* quadkey of the parent tile.
C15_QuadkeyInterleaves ==
    (Len(quad_out) = 1 /\ InRange(Val(quad_tile), quad_level)) =>
        LET tileX == Val(quad_tile)[1]
            tileY == Val(quad_tile)[2]
            quadkey == quad_out[1].quadkey
            side == 0..(np_power(2, quad_level) - 1)
        IN  /\ Len(quadkey) = quad_level
            /\ \A i \in 1..quad_level :
                   quadkey[i] = str(2 * bit(tileY, i, quad_level) + bit(tileX, i, quad_level))
            /\ \A otherX \in side, otherY \in side :
                   tileXY_to_quadkey(otherX, otherY, quad_level) = quadkey
                       => (otherX = tileX /\ otherY = tileY)
            /\ quad_level > 1 =>
                   SubSeq(quadkey, 1, quad_level - 1)
                       = tileXY_to_quadkey(tileX \div 2, tileY \div 2, quad_level - 1)

C15_Witness ==
    /\ Len(quad_out) = 1
    /\ quad_level = MaxLevel
    /\ Val(quad_tile) = <<1, 2>>
    /\ quad_out[1].quadkey = <<"0", "2", "1">>

\* C16: the coordinates returned for a point give the same quadkey as the point
C16_QuadkeyRoundTrip ==
    Len(quad_out) = 2 => quad_out[2].quadkey = quad_out[1].quadkey

----------------------------------------------------------------------------
(* Properties of UniformDisasterFun (SpecUniform)                           *)

\* C17: intensity returns one value per query point, the amplitude for a point
\* whose haversine distance from the epicentre is at most radius_km kilometres
\* and 0 for a point farther away.
C17_UniformIntensity ==
    uni_pc \notin {"idle", "new"} =>
        /\ uni_pc = "returned"
        /\ Len(Val(uni_out)) = Len(uni_pois)
        /\ \A i \in 1..Len(uni_pois) :
               Val(uni_out)[i] = IF haversine(uni_mean, uni_pois[i]) <= 1000 * uni_radius_km
                                 THEN uni_amplitude ELSE 0

----------------------------------------------------------------------------
(* Properties of extract_samples_from_geo_frame (SpecSample)                *)

AtQuota(n) == value_counts(geo_sample_points, n) >= geo_amount[n]

\* the function returns only with every node at its quota, a node at its quota
\* before a pass is at its quota after it, and the loop is left only when no
\* node is below its quota
QuotaKept ==
    /\ geo_pc' = "returned" =>
           \A n \in GeoNodes : value_counts(geo_sample_points', n) >= geo_amount[n]
    /\ \A n \in GeoNodes :
           AtQuota(n) => value_counts(geo_sample_points', n) >= geo_amount[n]
    /\ (geo_pc = "sampling" /\ geo_pc' = "returned") =>
           \A n \in GeoNodes : AtQuota(n)

\* C18: the table returned has at least sample_amount rows of every node, a
\* node that has reached its quota loses no row and does not drop below its
\* quota in a later pass, and the loop is not left while a node is below quota.
C18_QuotaReachedRowsKept ==
    [][geo_pc # "idle" =>
          /\ QuotaKept
          /\ \A n \in GeoNodes : AtQuota(n) =>
                 \A p \in Points : geo_sample_points'[n][p] >= geo_sample_points[n][p]]_vars

\* C18 (amended): as C18, but of the rows of a node at its quota only their
\* number is kept: it is exactly the quota after every later pass.
C18_QuotaReached ==
    [][geo_pc # "idle" =>
          /\ QuotaKept
          /\ \A n \in GeoNodes :
                 (AtQuota(n) /\ geo_amount[n] > 0 /\ geo_rounds > 0 /\ geo_pc' = "sampling")
                     => value_counts(geo_sample_points', n) = geo_amount[n]]_vars

C18_Witness ==
    /\ geo_pc = "returned"
    /\ geo_rounds = MaxRounds
    /\ \A n \in GeoNodes : geo_amount[n] = MaxQuota /\ AtQuota(n)

----------------------------------------------------------------------------
(* Properties of extract_destination_node (SpecChoice)                      *)

TopK == IF Cardinality(choice_adjacent) < 5 THEN Cardinality(choice_adjacent) ELSE 5

\* the members of adjacency[s] with a final force higher than that of v
Higher(v) ==
    {b \in choice_adjacent :
        ~choice_forces[b].nan /\ choice_forces[b].final_force > choice_forces[v].final_force}

----------------------------------------------------------------------------
(* Properties of the adjacency loop (SpecAdjacency)                         *)

AdjacencyOf(v) == Val(adj_built[v])

\* C23: the adjacency map built at the start of simulate is reflexive and
\* symmetric and matches the edge set: a is in adj[a]; b is in adj[a] exactly
\* when a is in adj[b]; for a # b, b is in adj[a] exactly when the edge table
\* holds (a, b) or (b, a); a node without edges has adjacency {itself}.
C23_AdjacencyMatchesEdges ==
    adj_pc # "loop" =>
        /\ adj_pc = "done"
        /\ \A a \in Nodes : adj_built[a] # None /\ a \in AdjacencyOf(a)
        /\ \A a, b \in Nodes : b \in AdjacencyOf(a) <=> a \in AdjacencyOf(b)
        /\ \A a, b \in Nodes :
              a # b => (b \in AdjacencyOf(a) <=> (<<a, b>> \in adj_edges \/ <<b, a>> \in adj_edges))
        /\ \A a \in Nodes :
              (\A e \in adj_edges : e[1] # a /\ e[2] # a) => AdjacencyOf(a) = {a}

\* the map of a frame read from the cache has all of this
IndexedFrameMatchesEdges ==
    (adj_pc = "done") =>
        /\ \A a \in Nodes : adj_built[a] # None /\ a \in AdjacencyOf(a)
        /\ \A a, b \in Nodes : b \in AdjacencyOf(a) <=> a \in AdjacencyOf(b)
        /\ \A a, b \in Nodes :
              a # b => (b \in AdjacencyOf(a) <=> (<<a, b>> \in adj_edges \/ <<b, a>> \in adj_edges))

----------------------------------------------------------------------------
(* Properties of initial_sample (SpecInitialSample)                         *)

\* the offsets of a returned row from the centre of its node
LonOffset(row) == row.lon - center_lon(row.node_id)
LatOffset(row) == row.lat - center_lat(row.node_id)
NoiseRange == CITY_NOISE * NoiseSteps

\* every device is within CITY_NOISE of the centre of a populated node
DevicesNearPopulatedNodes ==
    is_pc = "returned" =>
        \A i \in 1..is_ids :
            LET row == Val(is_positions)[i]
            IN  /\ is_population[row.node_id] > 0
                /\ LonOffset(row) >= -NoiseRange /\ LonOffset(row) <= NoiseRange
                /\ LatOffset(row) >= -NoiseRange /\ LatOffset(row) <= NoiseRange

\* C24: initial_sample places each device at the centre of its drawn node
\* plus xi * CITY_NOISE with xi over the square [-1, 1]^2: both offsets are
\* within CITY_NOISE and drawn independently of each other (not forced equal),
\* and a node of population 0 is never drawn.
C24_OffsetsOverTheSquare ==
    is_pc = "returned" =>
        /\ DevicesNearPopulatedNodes
        /\ \A x, y \in NoiseValues : <<x, y>> \in uniform_noise

\* what the code does: the two offsets of a device are the same number
OffsetsOnTheDiagonal ==
    is_pc = "returned" =>
        \A i \in 1..is_ids : LonOffset(Val(is_positions)[i]) = LatOffset(Val(is_positions)[i])

----------------------------------------------------------------------------
(* Properties of load_data (SpecLoadData)                                   *)

\* how often a device was at a location during an interval
Appearances(k, location) ==
    Cardinality({ i \in rows_of(ld_raw, k[1], k[2]) : ld_raw[i].location = location })

\* the devices seen in an interval, and the counts of the interval
DevicesSeen(date_time) == { k[1] : k \in { x \in duplicate_keys(ld_raw) : x[2] = date_time } }
RECURSIVE SumCounts(_)
SumCounts(G) ==
    IF G = {} THEN 0
    ELSE LET g == CHOOSE x \in G : TRUE IN ld_count[g] + SumCounts(G \ {g})

\* one row per device and interval, and the counts of an interval add up to
\* the devices seen in it
OneRowPerDeviceAndInterval ==
    ld_pc = "loaded" =>
        /\ DOMAIN ld_kept = duplicate_keys(ld_raw)
        /\ \A k \in DOMAIN ld_kept : Appearances(k, ld_kept[k]) >= 1
        /\ \A t \in {0, 8, 16} :
              SumCounts({ g \in DOMAIN ld_count : g[2] = t }) = Cardinality(DevicesSeen(t))

\* C25: after the de-duplication of load_data each (device, interval) pair
\* has exactly one row, that row is the location at which the device appeared
\* most often during the interval, and so the counts of an interval sum to the
\* number of distinct devices seen in it.
C25_MostFrequentLocationKept ==
    ld_pc = "loaded" =>
        /\ OneRowPerDeviceAndInterval
        /\ \A k \in DOMAIN ld_kept :
              \A location \in PingLocations :
                  Appearances(k, ld_kept[k]) >= Appearances(k, location)

----------------------------------------------------------------------------
(* Properties of FBPopulationDensity.__init__ (SpecConstruct)               *)

\* the baseline columns of the i-th instance
BaselineCols(i) == fb_lists[fb_instances[i].baseline_cols]

\* C28: constructing an FBPopulationDensity with the default baseline_cols
\* changes no state shared with other instances: however many instances are
\* constructed one after another with the defaults, the baseline columns of
\* each are exactly hour, day_of_week and its own geometry key.
C28_DefaultsNotShared ==
    \A i \in 1..Len(fb_instances) :
        fb_instances[i].baseline_cols = 0 =>
            BaselineCols(i) = <<"hour", "day_of_week", fb_instances[i].geo_col_name>>

\* what the code does: the instances constructed with the defaults share one
\* list, which has one more entry for each of them
DefaultsGrow ==
    LET defaults == { i \in 1..Len(fb_instances) : fb_instances[i].baseline_cols = 0 }
    IN  /\ Len(fb_lists[0]) = 2 + Cardinality(defaults)
        /\ \A i \in defaults : BaselineCols(i) = fb_lists[0]

----------------------------------------------------------------------------
(* Properties of the tables of FBPopulationDensity (SpecDataset)            *)

\* C29: a baseline (or crisis) table installed with set_baseline (set_crisis)
\* is the one a later build_dataset uses and is never overwritten by an
\* implicit load_data, in every order of set_baseline, set_crisis, baseline(),
\* crisis() and build_dataset, also when only one of the tables was installed.
C29_InstalledTablesStay ==
    [][/\ pd_baseline = "installed" => pd_baseline' = "installed"
       /\ pd_crisis = "installed" => pd_crisis' = "installed"
       /\ (pd_data' # pd_data /\ pd_baseline = "installed") =>
              Val(pd_data').baseline = "installed"
       /\ (pd_data' # pd_data /\ pd_crisis = "installed") =>
              Val(pd_data').crisis = "installed"]_vars

\* what holds: tables installed both are kept and used
BothInstalledStay ==
    [][(pd_baseline = "installed" /\ pd_crisis = "installed") =>
          /\ pd_baseline' = "installed" /\ pd_crisis' = "installed"
          /\ pd_data' # pd_data =>
                 Val(pd_data') = [baseline |-> "installed", crisis |-> "installed"]]_vars

----------------------------------------------------------------------------
(* Specifications                                                           *)

SearchIdle ==
    /\ array = <<>> /\ search_val = 0 /\ closest_index = -1
    /\ fun = None /\ tick_msg = "" /\ search_pc = "idle"

QuakeIdle ==
    /\ eq_start_date = 0 /\ eq_end_date = 0 /\ eq_continuity = None
    /\ eq_method = "linear" /\ eq_step_unit = "hr" /\ eq_A0 = 0
    /\ disaster_timeline = None /\ disaster_functions = None /\ eq_pc = "idle"

SimIdle ==
    /\ sim_start_date = 0 /\ sim_end_date = 0 /\ frequency = 0 /\ group_keys = FALSE
    /\ population = <<>> /\ sim_edges = {} /\ sim_timeline = <<>> /\ sim_functions = <<>>
    /\ adjacent_nodes = <<>> /\ disaster_on = FALSE /\ forces = <<>> /\ total_elements = 0
    /\ device_positions = <<>> /\ device_trajectories = <<>> /\ current_date = 0
    /\ node_trajectories = {} /\ edge_trajectories = {}
    /\ results_folder = <<>> /\ export_log = <<>> /\ ticks_started = 0 /\ sim_pc = "idle"

BuildIdle ==
    /\ min_lon = 0 /\ max_lon = 0 /\ world_pop_density = <<>> /\ populated_places = <<>>
    /\ nodes = None /\ edges = None /\ build_pc = "idle"

CacheIdle ==
    /\ hdx_kind = "" /\ hdx_memory = <<>> /\ hdx_cache = <<>> /\ hdx_stdout = <<>>
    /\ hdx_builds = 0 /\ hdx_calls = 0

PingIdle ==
    /\ ping_dir = <<>> /\ ping_df = None /\ ping_errors = <<>> /\ ping_pc = "idle"

QuadIdle ==
    /\ quad_level = 1
    /\ quad_poi = [latitude |-> 0, longitude |-> 0]
    /\ quad_tile = None
    /\ quad_out = <<>>

UniIdle ==
    /\ uni_mean = 0
    /\ uni_radius_km = 1
    /\ uni_amplitude = 1
    /\ uni_pois = <<>>
    /\ uni_out = None
    /\ uni_pc = "idle"

GeoIdle ==
    /\ geo_amount = <<>>
    /\ geo_sample_step = 0
    /\ geo_counts_named = TRUE
    /\ geo_sample_size = 0
    /\ geo_sample_points = <<>>
    /\ geo_progress = {}
    /\ geo_rounds = 0
    /\ geo_pc = "idle"

ChoiceIdle ==
    /\ choice_node = 1
    /\ choice_adjacent = {}
    /\ choice_forces = <<>>
    /\ choice_on = FALSE
    /\ choice_devices = 0
    /\ choice_kept = None
    /\ choice_out = None
    /\ choice_pc = "idle"

AdjacencyIdle ==
    /\ adj_index = "MultiIndex"
    /\ adj_edges = {}
    /\ adj_built = <<>>
    /\ adj_pc = "done"

InitialSampleIdle ==
    /\ is_population = <<>>
    /\ is_ids = 0
    /\ is_positions = None
    /\ is_pc = "returned"

LoadDataIdle ==
    /\ ld_raw = <<>>
    /\ ld_kept = <<>>
    /\ ld_count = <<>>
    /\ ld_pc = "loaded"

ConstructIdle ==
    /\ fb_lists = <<>>
    /\ fb_instances = <<>>
    /\ fb_errors = 0

DatasetIdle ==
    /\ pd_rows_before = FALSE
    /\ pd_rows_after = FALSE
    /\ pd_geo_readable = FALSE
    /\ pd_baseline = "empty"
    /\ pd_crisis = "empty"
    /\ pd_baseline_loaded = FALSE
    /\ pd_crisis_loaded = FALSE
    /\ pd_data = None
    /\ pd_calls = 0

\* the specifications, one per part; a part leaves the variables of the others alone

InitSearch == SearchInit /\ QuakeIdle /\ BuildIdle /\ SimIdle /\ CacheIdle /\ PingIdle
    /\ QuadIdle /\ UniIdle /\ GeoIdle /\ ChoiceIdle /\ AdjacencyIdle
    /\ InitialSampleIdle /\ LoadDataIdle /\ ConstructIdle /\ DatasetIdle
NextSearch ==
    \/ BinarySearch
       /\ UNCHANGED <<quakeVars, buildVars, simVars, cacheVars, pingVars, quadVars, uniVars,
                    geoVars, choiceVars, adjVars, isVars, ldVars, fbVars, pdVars>>
    \/ TickLookup
       /\ UNCHANGED <<quakeVars, buildVars, simVars, cacheVars, pingVars, quadVars, uniVars,
                    geoVars, choiceVars, adjVars, isVars, ldVars, fbVars, pdVars>>
SpecSearch == InitSearch /\ [][NextSearch]_vars

InitQuake == QuakeInit /\ SearchIdle /\ BuildIdle /\ SimIdle /\ CacheIdle /\ PingIdle
    /\ QuadIdle /\ UniIdle /\ GeoIdle /\ ChoiceIdle /\ AdjacencyIdle
    /\ InitialSampleIdle /\ LoadDataIdle /\ ConstructIdle /\ DatasetIdle
NextQuake ==
    \/ GenerateAssertFails
       /\ UNCHANGED <<searchVars, buildVars, simVars, cacheVars, pingVars, quadVars, uniVars,
                    geoVars, choiceVars, adjVars, isVars, ldVars, fbVars, pdVars>>
    \/ GenerateDisaster
       /\ UNCHANGED <<searchVars, buildVars, simVars, cacheVars, pingVars, quadVars, uniVars,
                    geoVars, choiceVars, adjVars, isVars, ldVars, fbVars, pdVars>>
    \/ GenerateAgain
       /\ UNCHANGED <<searchVars, buildVars, simVars, cacheVars, pingVars, quadVars, uniVars,
                    geoVars, choiceVars, adjVars, isVars, ldVars, fbVars, pdVars>>
SpecQuake == InitQuake /\ [][NextQuake]_vars

InitBuild == BuildInit /\ SearchIdle /\ QuakeIdle /\ SimIdle /\ CacheIdle /\ PingIdle
    /\ QuadIdle /\ UniIdle /\ GeoIdle /\ ChoiceIdle /\ AdjacencyIdle
    /\ InitialSampleIdle /\ LoadDataIdle /\ ConstructIdle /\ DatasetIdle
NextBuild ==
    \/ BuildRaises
       /\ UNCHANGED <<searchVars, quakeVars, simVars, cacheVars, pingVars, quadVars, uniVars,
                    geoVars, choiceVars, adjVars, isVars, ldVars, fbVars, pdVars>>
    \/ Build
       /\ UNCHANGED <<searchVars, quakeVars, simVars, cacheVars, pingVars, quadVars, uniVars,
                    geoVars, choiceVars, adjVars, isVars, ldVars, fbVars, pdVars>>
SpecBuild == InitBuild /\ [][NextBuild]_vars

InitSim == SimInit /\ SearchIdle /\ QuakeIdle /\ BuildIdle /\ CacheIdle /\ PingIdle
    /\ QuadIdle /\ UniIdle /\ GeoIdle /\ ChoiceIdle /\ AdjacencyIdle
    /\ InitialSampleIdle /\ LoadDataIdle /\ ConstructIdle /\ DatasetIdle
NextSim ==
    \/ SetupRaises
       /\ UNCHANGED <<searchVars, quakeVars, buildVars, cacheVars, pingVars, quadVars, uniVars,
                    geoVars, choiceVars, adjVars, isVars, ldVars, fbVars, pdVars>>
    \/ Setup
       /\ UNCHANGED <<searchVars, quakeVars, buildVars, cacheVars, pingVars, quadVars, uniVars,
                    geoVars, choiceVars, adjVars, isVars, ldVars, fbVars, pdVars>>
    \/ TickChoiceRaises
       /\ UNCHANGED <<searchVars, quakeVars, buildVars, cacheVars, pingVars, quadVars, uniVars,
                    geoVars, choiceVars, adjVars, isVars, ldVars, fbVars, pdVars>>
    \/ TickRaises
       /\ UNCHANGED <<searchVars, quakeVars, buildVars, cacheVars, pingVars, quadVars, uniVars,
                    geoVars, choiceVars, adjVars, isVars, ldVars, fbVars, pdVars>>
    \/ Tick
       /\ UNCHANGED <<searchVars, quakeVars, buildVars, cacheVars, pingVars, quadVars, uniVars,
                    geoVars, choiceVars, adjVars, isVars, ldVars, fbVars, pdVars>>
    \/ TickExportFails
       /\ UNCHANGED <<searchVars, quakeVars, buildVars, cacheVars, pingVars, quadVars, uniVars,
                    geoVars, choiceVars, adjVars, isVars, ldVars, fbVars, pdVars>>
    \/ Finish
       /\ UNCHANGED <<searchVars, quakeVars, buildVars, cacheVars, pingVars, quadVars, uniVars,
                    geoVars, choiceVars, adjVars, isVars, ldVars, fbVars, pdVars>>
SpecSim == InitSim /\ [][NextSim]_vars

InitClock == ClockInit /\ SearchIdle /\ QuakeIdle /\ BuildIdle /\ CacheIdle /\ PingIdle
    /\ QuadIdle /\ UniIdle /\ GeoIdle /\ ChoiceIdle /\ AdjacencyIdle
    /\ InitialSampleIdle /\ LoadDataIdle /\ ConstructIdle /\ DatasetIdle
SpecClock == InitClock /\ [][NextSim]_vars

InitCache == CacheInit /\ SearchIdle /\ QuakeIdle /\ BuildIdle /\ SimIdle /\ PingIdle
    /\ QuadIdle /\ UniIdle /\ GeoIdle /\ ChoiceIdle /\ AdjacencyIdle
    /\ InitialSampleIdle /\ LoadDataIdle /\ ConstructIdle /\ DatasetIdle
NextCache ==
    \/ CallBuild
       /\ UNCHANGED <<searchVars, quakeVars, buildVars, simVars, pingVars, quadVars, uniVars,
                    geoVars, choiceVars, adjVars, isVars, ldVars, fbVars, pdVars>>
    \/ CallGetter
       /\ UNCHANGED <<searchVars, quakeVars, buildVars, simVars, pingVars, quadVars, uniVars,
                    geoVars, choiceVars, adjVars, isVars, ldVars, fbVars, pdVars>>
SpecCache == InitCache /\ [][NextCache]_vars

InitPing == PingInit /\ SearchIdle /\ QuakeIdle /\ BuildIdle /\ SimIdle /\ CacheIdle
    /\ QuadIdle /\ UniIdle /\ GeoIdle /\ ChoiceIdle /\ AdjacencyIdle
    /\ InitialSampleIdle /\ LoadDataIdle /\ ConstructIdle /\ DatasetIdle
NextPing ==
    \/ LoadPingData
       /\ UNCHANGED <<searchVars, quakeVars, buildVars, simVars, cacheVars, quadVars, uniVars,
                    geoVars, choiceVars, adjVars, isVars, ldVars, fbVars, pdVars>>
    \/ LoadPingDataRaises
       /\ UNCHANGED <<searchVars, quakeVars, buildVars, simVars, cacheVars, quadVars, uniVars,
                    geoVars, choiceVars, adjVars, isVars, ldVars, fbVars, pdVars>>
SpecPing == InitPing /\ [][NextPing]_vars

InitQuad == QuadInit /\ SearchIdle /\ QuakeIdle /\ BuildIdle /\ SimIdle /\ CacheIdle
    /\ PingIdle /\ UniIdle /\ GeoIdle /\ ChoiceIdle /\ AdjacencyIdle
    /\ InitialSampleIdle /\ LoadDataIdle /\ ConstructIdle /\ DatasetIdle
NextQuad ==
    \/ ExtractQuadKeys
       /\ UNCHANGED <<searchVars, quakeVars, buildVars, simVars, cacheVars, pingVars, uniVars,
                    geoVars, choiceVars, adjVars, isVars, ldVars, fbVars, pdVars>>
    \/ ExtractAgain
       /\ UNCHANGED <<searchVars, quakeVars, buildVars, simVars, cacheVars, pingVars, uniVars,
                    geoVars, choiceVars, adjVars, isVars, ldVars, fbVars, pdVars>>
SpecQuad == InitQuad /\ [][NextQuad]_vars

InitUniform == UniInit /\ SearchIdle /\ QuakeIdle /\ BuildIdle /\ SimIdle /\ CacheIdle
    /\ PingIdle /\ QuadIdle /\ GeoIdle /\ ChoiceIdle /\ AdjacencyIdle
    /\ InitialSampleIdle /\ LoadDataIdle /\ ConstructIdle /\ DatasetIdle
NextUniform ==
    \/ Intensity
       /\ UNCHANGED <<searchVars, quakeVars, buildVars, simVars, cacheVars, pingVars, quadVars,
                    geoVars, choiceVars, adjVars, isVars, ldVars, fbVars, pdVars>>
SpecUniform == InitUniform /\ [][NextUniform]_vars

InitSample == GeoInit /\ SearchIdle /\ QuakeIdle /\ BuildIdle /\ SimIdle /\ CacheIdle
    /\ PingIdle /\ QuadIdle /\ UniIdle /\ ChoiceIdle /\ AdjacencyIdle
    /\ InitialSampleIdle /\ LoadDataIdle /\ ConstructIdle /\ DatasetIdle
NextSample ==
    \/ SampleRound
       /\ UNCHANGED <<searchVars, quakeVars, buildVars, simVars, cacheVars, pingVars, quadVars,
                    uniVars, choiceVars, adjVars, isVars, ldVars, fbVars, pdVars>>
    \/ SampleRoundRaises
       /\ UNCHANGED <<searchVars, quakeVars, buildVars, simVars, cacheVars, pingVars, quadVars,
                    uniVars, choiceVars, adjVars, isVars, ldVars, fbVars, pdVars>>
    \/ SampleReturn
       /\ UNCHANGED <<searchVars, quakeVars, buildVars, simVars, cacheVars, pingVars, quadVars,
                    uniVars, choiceVars, adjVars, isVars, ldVars, fbVars, pdVars>>
SpecSample == InitSample /\ [][NextSample]_vars

InitChoice == ChoiceInit /\ SearchIdle /\ QuakeIdle /\ BuildIdle /\ SimIdle /\ CacheIdle
    /\ PingIdle /\ QuadIdle /\ UniIdle /\ GeoIdle /\ AdjacencyIdle /\ InitialSampleIdle
    /\ LoadDataIdle /\ ConstructIdle /\ DatasetIdle
NextChoice ==
    \/ ExtractDestinationNode
       /\ UNCHANGED <<searchVars, quakeVars, buildVars, simVars, cacheVars, pingVars, quadVars,
                    uniVars, geoVars, adjVars, isVars, ldVars, fbVars, pdVars>>
    \/ ExtractDestinationNodeRaises
       /\ UNCHANGED <<searchVars, quakeVars, buildVars, simVars, cacheVars, pingVars, quadVars,
                    uniVars, geoVars, adjVars, isVars, ldVars, fbVars, pdVars>>
SpecChoice == InitChoice /\ [][NextChoice]_vars

InitAdjacency == AdjacencyInit /\ SearchIdle /\ QuakeIdle /\ BuildIdle /\ SimIdle
    /\ CacheIdle /\ PingIdle /\ QuadIdle /\ UniIdle /\ GeoIdle /\ ChoiceIdle
    /\ InitialSampleIdle /\ LoadDataIdle /\ ConstructIdle /\ DatasetIdle
NextAdjacency ==
    \/ ExtractNeighbors
       /\ UNCHANGED <<searchVars, quakeVars, buildVars, simVars, cacheVars, pingVars, quadVars,
                    uniVars, geoVars, choiceVars, isVars, ldVars, fbVars, pdVars>>
    \/ ExtractNeighborsRaises
       /\ UNCHANGED <<searchVars, quakeVars, buildVars, simVars, cacheVars, pingVars, quadVars,
                    uniVars, geoVars, choiceVars, isVars, ldVars, fbVars, pdVars>>
SpecAdjacency == InitAdjacency /\ [][NextAdjacency]_vars

InitInitialSample == InitialSampleInit /\ SearchIdle /\ QuakeIdle /\ BuildIdle
    /\ SimIdle /\ CacheIdle /\ PingIdle /\ QuadIdle /\ UniIdle /\ GeoIdle /\ ChoiceIdle
    /\ AdjacencyIdle /\ LoadDataIdle /\ ConstructIdle /\ DatasetIdle
NextInitialSample ==
    \/ InitialSample
       /\ UNCHANGED <<searchVars, quakeVars, buildVars, simVars, cacheVars, pingVars, quadVars,
                    uniVars, geoVars, choiceVars, adjVars, ldVars, fbVars, pdVars>>
    \/ InitialSampleRaises
       /\ UNCHANGED <<searchVars, quakeVars, buildVars, simVars, cacheVars, pingVars, quadVars,
                    uniVars, geoVars, choiceVars, adjVars, ldVars, fbVars, pdVars>>
SpecInitialSample == InitInitialSample /\ [][NextInitialSample]_vars

InitLoadData == LoadDataInit /\ SearchIdle /\ QuakeIdle /\ BuildIdle /\ SimIdle
    /\ CacheIdle /\ PingIdle /\ QuadIdle /\ UniIdle /\ GeoIdle /\ ChoiceIdle
    /\ AdjacencyIdle /\ InitialSampleIdle /\ ConstructIdle /\ DatasetIdle
NextLoadData ==
    \/ LoadData
       /\ UNCHANGED <<searchVars, quakeVars, buildVars, simVars, cacheVars, pingVars, quadVars,
                    uniVars, geoVars, choiceVars, adjVars, isVars, fbVars, pdVars>>
SpecLoadData == InitLoadData /\ [][NextLoadData]_vars

InitConstruct == ConstructInit /\ SearchIdle /\ QuakeIdle /\ BuildIdle /\ SimIdle
    /\ CacheIdle /\ PingIdle /\ QuadIdle /\ UniIdle /\ GeoIdle /\ ChoiceIdle
    /\ AdjacencyIdle /\ InitialSampleIdle /\ LoadDataIdle /\ DatasetIdle
NextConstruct ==
    \/ Construct
       /\ UNCHANGED <<searchVars, quakeVars, buildVars, simVars, cacheVars, pingVars, quadVars,
                    uniVars, geoVars, choiceVars, adjVars, isVars, ldVars, pdVars>>
    \/ ConstructRaises
       /\ UNCHANGED <<searchVars, quakeVars, buildVars, simVars, cacheVars, pingVars, quadVars,
                    uniVars, geoVars, choiceVars, adjVars, isVars, ldVars, pdVars>>
SpecConstruct == InitConstruct /\ [][NextConstruct]_vars

InitDataset == DatasetInit /\ SearchIdle /\ QuakeIdle /\ BuildIdle /\ SimIdle
    /\ CacheIdle /\ PingIdle /\ QuadIdle /\ UniIdle /\ GeoIdle /\ ChoiceIdle
    /\ AdjacencyIdle /\ InitialSampleIdle /\ LoadDataIdle /\ ConstructIdle
NextDataset ==
    \/ SetBaseline
       /\ UNCHANGED <<searchVars, quakeVars, buildVars, simVars, cacheVars, pingVars, quadVars,
                    uniVars, geoVars, choiceVars, adjVars, isVars, ldVars, fbVars>>
    \/ SetCrisis
       /\ UNCHANGED <<searchVars, quakeVars, buildVars, simVars, cacheVars, pingVars, quadVars,
                    uniVars, geoVars, choiceVars, adjVars, isVars, ldVars, fbVars>>
    \/ Baseline
       /\ UNCHANGED <<searchVars, quakeVars, buildVars, simVars, cacheVars, pingVars, quadVars,
                    uniVars, geoVars, choiceVars, adjVars, isVars, ldVars, fbVars>>
    \/ Crisis
       /\ UNCHANGED <<searchVars, quakeVars, buildVars, simVars, cacheVars, pingVars, quadVars,
                    uniVars, geoVars, choiceVars, adjVars, isVars, ldVars, fbVars>>
    \/ BuildDataset
       /\ UNCHANGED <<searchVars, quakeVars, buildVars, simVars, cacheVars, pingVars, quadVars,
                    uniVars, geoVars, choiceVars, adjVars, isVars, ldVars, fbVars>>
SpecDataset == InitDataset /\ [][NextDataset]_vars

====
